---------------------------- MODULE Spec2Model ----------------------------
(***************************************************************************)
(* Invoice-Uploader backend: the extraction-and-reconciliation pipeline.    *)
(*                                                                         *)
(*   src/llm-2.js            extractInvoiceFromFile (OpenAI SDK variant)     *)
(*   src/llm.js              extractInvoiceFromFile (fetch variant)          *)
(*   src/routes/invoices.js  the Express handlers (lines 271-751: the       *)
(*                           current router)                                *)
(*   src/db/schema.sql       the two tables and their sample rows           *)
(*                                                                         *)
(* JavaScript values are tagged records, numbers are counted in hundredths  *)
(* (the scale of DECIMAL(12,2)), strings are sequences of one-character     *)
(* strings, and the model's output text is a sequence of lexical tokens.    *)
(***************************************************************************)
EXTENDS Integers, Sequences, FiniteSets, TLC

(***************************************************************************)
(* Bounds of the model.                                                     *)
(***************************************************************************)
\* requests (of any kind) started in one behaviour
MaxRequests == 3
\* invoices created by POST /upload in one behaviour
MaxUploads == 1

(***************************************************************************)
(* JavaScript values.                                                       *)
(***************************************************************************)
JsVal(t, n, s) == [t |-> t, n |-> n, s |-> s]
Undef == JsVal("undefined", 0, <<>>)
Null == JsVal("null", 0, <<>>)
NaN == JsVal("NaN", 0, <<>>)
Num(n) == JsVal("number", n, <<>>)
Str(s) == JsVal("string", 0, s)
Bool(b) == JsVal("boolean", IF b THEN 1 ELSE 0, <<>>)

\* whole units to hundredths
Units(k) == k * 100

IsNullish(v) == v.t \in {"undefined", "null"}

\* ToBoolean: what `a || b` and `if (a)` test
Truthy(v) ==
    CASE v.t = "undefined" -> FALSE
      [] v.t = "null" -> FALSE
      [] v.t = "NaN" -> FALSE
      [] v.t = "number" -> v.n # 0
      [] v.t = "string" -> Len(v.s) > 0
      [] v.t = "boolean" -> v.n = 1
      [] OTHER -> TRUE

\* a || b
Or(a, b) == IF Truthy(a) THEN a ELSE b

\* a ?? b
Coalesce(a, b) == IF IsNullish(a) THEN b ELSE a

DigitChars == <<"0", "1", "2", "3", "4", "5", "6", "7", "8", "9">>
IsDigit(c) == \E i \in 1..10 : DigitChars[i] = c
DigitVal(c) == (CHOOSE i \in 1..10 : DigitChars[i] = c) - 1
IsSpace(c) == c \in {" ", "\n", "\t"}

RECURSIVE LeadingDigits(_)
\* the number of digits the string starts with
LeadingDigits(s) ==
    IF s = <<>> \/ ~IsDigit(Head(s)) THEN 0 ELSE 1 + LeadingDigits(Tail(s))

RECURSIVE DigitsValue(_)
\* the decimal value of a string of digits
DigitsValue(s) ==
    IF s = <<>> THEN 0
    ELSE DigitsValue(SubSeq(s, 1, Len(s) - 1)) * 10 + DigitVal(s[Len(s)])

RECURSIVE TrimLeft(_)
TrimLeft(s) == IF s # <<>> /\ IsSpace(Head(s)) THEN TrimLeft(Tail(s)) ELSE s

RECURSIVE TrimRight(_)
TrimRight(s) ==
    IF s # <<>> /\ IsSpace(s[Len(s)]) THEN TrimRight(SubSeq(s, 1, Len(s) - 1)) ELSE s

Trim(s) == TrimRight(TrimLeft(s))

\* The longest prefix of s that is a decimal literal (sign, digits, fraction):
\* its length (0 when there is none) and its value in hundredths.
NumericPrefix(s) ==
    LET neg == s # <<>> /\ Head(s) = "-"
        body == IF s # <<>> /\ Head(s) \in {"-", "+"} THEN Tail(s) ELSE s
        k == LeadingDigits(body)
        rest == SubSeq(body, k + 1, Len(body))
        dot == rest # <<>> /\ Head(rest) = "."
        m == IF dot THEN LeadingDigits(Tail(rest)) ELSE 0
        frac == IF dot THEN SubSeq(Tail(rest), 1, m) ELSE <<>>
        \* with no digit at all there is no literal
        ok == k + m > 0
        useDot == dot /\ (m > 0 \/ k > 0)
        cents == IF m = 0 THEN 0
                 ELSE IF m = 1 THEN DigitVal(frac[1]) * 10
                 ELSE DigitVal(frac[1]) * 10 + DigitVal(frac[2])
        mag == DigitsValue(SubSeq(body, 1, k)) * 100 + cents
    IN  [len |-> IF ok THEN (Len(s) - Len(body)) + k + (IF useDot THEN 1 + m ELSE 0) ELSE 0,
         n |-> IF neg THEN 0 - mag ELSE mag]

\* Number(string): the whole trimmed string must be a literal; "" is 0
StringToNumber(s) ==
    LET t == Trim(s)
        p == NumericPrefix(t)
    IN  IF t = <<>> THEN Num(0)
        ELSE IF p.len = Len(t) THEN Num(p.n)
        ELSE NaN

\* Number(v)
ToNumber(v) ==
    CASE v.t = "undefined" -> NaN
      [] v.t = "null" -> Num(0)
      [] v.t = "NaN" -> NaN
      [] v.t = "number" -> v
      [] v.t = "string" -> StringToNumber(v.s)
      [] v.t = "boolean" -> Num(Units(v.n))
      [] OTHER -> NaN

\* parseFloat(v): v is converted to a string, then its longest numeric prefix is read
ParseFloat(v) ==
    CASE v.t = "number" -> v
      [] v.t = "string" ->
            LET t == TrimLeft(v.s)
                p == NumericPrefix(t)
            IN  IF p.len > 0 THEN Num(p.n) ELSE NaN
      [] OTHER -> NaN

\* a * b on numbers
Times(a, b) ==
    IF a.t = "number" /\ b.t = "number" THEN Num((a.n * b.n) \div 100) ELSE NaN

(***************************************************************************)
(* Text: the model's output as a sequence of lexical tokens.  A member      *)
(* token is one "key": value pair of a JSON object, its value already       *)
(* lexed; prose is any run of characters without a brace; ent_lbrace and    *)
(* ent_rbrace are the HTML entities of the two braces (&#123; and &#125;).  *)
(***************************************************************************)
NoArr == [t |-> "undefined", arr |-> <<>>]
Arr(items) == [t |-> "array", arr |-> items]
Tok(k, key, val, arr) == [k |-> k, key |-> key, val |-> val, arr |-> arr]
LBrace == Tok("lbrace", "", Undef, NoArr)
RBrace == Tok("rbrace", "", Undef, NoArr)
Comma == Tok("comma", "", Undef, NoArr)
Prose == Tok("prose", "", Undef, NoArr)
Space == Tok("ws", "", Undef, NoArr)
EntLBrace == Tok("ent_lbrace", "", Undef, NoArr)
EntRBrace == Tok("ent_rbrace", "", Undef, NoArr)
Member(key, val) == Tok("member", key, val, NoArr)
ItemsMember(arr) == Tok("member", "line_items", Undef, arr)

\* a line item of the model's output: an object, or null
Item(d, q, u, lt, c) ==
    [t |-> "object", description |-> d, quantity |-> q, unit_price |-> u,
     line_total |-> lt, confidence |-> c]
NullItem == [t |-> "null", description |-> Undef, quantity |-> Undef,
             unit_price |-> Undef, line_total |-> Undef, confidence |-> Undef]

ScalarKeys ==
    {"supplier_name", "invoice_number", "invoice_date", "currency", "subtotal",
     "total", "confidence"}

\* the object {} : every key absent
EmptyObject ==
    [supplier_name |-> Undef, invoice_number |-> Undef, invoice_date |-> Undef,
     currency |-> Undef, subtotal |-> Undef, total |-> Undef, confidence |-> Undef,
     line_items |-> NoArr, extra |-> {}]

\* obj with one more "key": value pair (a repeated key keeps the last value)
WithMember(obj, tok) ==
    IF tok.key = "line_items" THEN [obj EXCEPT !.line_items = tok.arr]
    ELSE IF tok.key \in ScalarKeys THEN [obj EXCEPT ![tok.key] = tok.val]
    ELSE [obj EXCEPT !.extra = @ \cup {tok.key}]

RECURSIVE MembersOk(_)
\* member (comma member)*
MembersOk(toks) ==
    /\ toks # <<>>
    /\ Head(toks).k = "member"
    /\ \/ Len(toks) = 1
       \/ /\ Len(toks) >= 3
          /\ toks[2].k = "comma"
          /\ MembersOk(SubSeq(toks, 3, Len(toks)))

RECURSIVE FoldMembers(_, _)
FoldMembers(obj, toks) ==
    IF toks = <<>> THEN obj
    ELSE FoldMembers(IF Head(toks).k = "member" THEN WithMember(obj, Head(toks)) ELSE obj,
                     Tail(toks))

\* JSON.parse of a text that should be one object: whitespace is skipped
JsonParse(text) ==
    LET toks == SelectSeq(text, LAMBDA x : x.k # "ws")
        n == Len(toks)
        inner == SubSeq(toks, 2, n - 1)
        ok == /\ n >= 2
              /\ toks[1].k = "lbrace"
              /\ toks[n].k = "rbrace"
              /\ (inner = <<>> \/ MembersOk(inner))
    IN  [ok |-> ok, obj |-> IF ok THEN FoldMembers(EmptyObject, inner) ELSE EmptyObject]

\* a match that stops at the first "}" after the first "{"
JsonMatchLazy(text) ==
    LET opens == {i \in 1..Len(text) : text[i].k = "lbrace"}
        first == IF opens = {} THEN 0 ELSE CHOOSE i \in opens : \A j \in opens : i <= j
        closes == {i \in 1..Len(text) : text[i].k = "rbrace" /\ i > first}
        last == IF closes = {} THEN 0 ELSE CHOOSE i \in closes : \A j \in closes : i <= j
    IN  [found |-> first > 0 /\ last > 0,
         text |-> IF first > 0 /\ last > 0 THEN SubSeq(text, first, last) ELSE <<>>]

\* rawOutput.match(/{[\s\S]*}/): from the first "{" to the last "}" after it
JsonMatch(text) ==
    LET opens == {i \in 1..Len(text) : text[i].k = "lbrace"}
        first == IF opens = {} THEN 0 ELSE CHOOSE i \in opens : \A j \in opens : i <= j
        closes == {i \in 1..Len(text) : text[i].k = "rbrace" /\ i > first}
        last == IF closes = {} THEN 0 ELSE CHOOSE i \in closes : \A j \in closes : j <= i
    IN  [found |-> first > 0 /\ last > 0,
         text |-> IF first > 0 /\ last > 0 THEN SubSeq(text, first, last) ELSE <<>>]

\* "&amp;" inside text
EntAmp == Tok("ent_amp", "", Undef, NoArr)

\* he.decode on the characters of a JSON string value: "&amp;" becomes "&"
HeDecodeValue(v) ==
    IF v.t = "string"
    THEN Str([i \in 1..Len(v.s) |-> IF v.s[i] = "&amp;" THEN "&" ELSE v.s[i]])
    ELSE v

\* he.decode on the string values of the line items of an array
HeDecodeItems(la) ==
    [la EXCEPT !.arr = [j \in 1..Len(la.arr) |->
                           [la.arr[j] EXCEPT !.description = HeDecodeValue(la.arr[j].description)]]]

\* he.decode: the entities become the characters they stand for, between the
\* values and inside them
HeDecode(text) ==
    [i \in 1..Len(text) |->
        IF text[i].k = "ent_lbrace" THEN LBrace
        ELSE IF text[i].k = "ent_rbrace" THEN RBrace
        ELSE IF text[i].k = "ent_amp" THEN Prose
        ELSE IF text[i].k = "member"
        THEN Tok("member", text[i].key, HeDecodeValue(text[i].val), HeDecodeItems(text[i].arr))
        ELSE text[i]]

\* String.prototype.trim() leaves something
NonBlank(text) == \E i \in 1..Len(text) : text[i].k # "ws"

(***************************************************************************)
(* The LLM backend's response object and the Response Resolver              *)
(* (src/llm-2.js, extractTextFromResponsesApi).                             *)
(***************************************************************************)
TextVal(text) == [t |-> "string", text |-> text]
NoText == [t |-> "undefined", text |-> <<>>]
\* a content part: an object with or without .text, or null
Part(tv) == [t |-> "object", text |-> tv]
NullPart == [t |-> "null", text |-> NoText]
\* an item of resp.output: a string, an object with a content array, another object
OutString(text) == [t |-> "string", text |-> text, content |-> <<>>]
OutMessage(parts) == [t |-> "message", text |-> <<>>, content |-> parts]
OutObject == [t |-> "object", text |-> <<>>, content |-> <<>>]
NoList == [t |-> "undefined", arr |-> <<>>]
List(xs) == [t |-> "array", arr |-> xs]
\* a candidate: with content.parts an array, or without
Cand(hasParts, parts) == [hasParts |-> hasParts, parts |-> parts]
Resp(ot, out, cands) == [output_text |-> ot, output |-> out, candidates |-> cands]

\* JSON.stringify of an object that is no invoice, named by one of its keys
JsonOf(key) == <<LBrace, Member(key, Null), RBrace>>

\* JSON.stringify(resp): the whole response, named by its "id" key
StringifyResponse(resp) == JsonOf("id")

RECURSIVE JoinLines(_)
\* texts.join("\n")
JoinLines(texts) ==
    IF texts = <<>> THEN <<>>
    ELSE IF Len(texts) = 1 THEN texts[1]
    ELSE texts[1] \o <<Space>> \o JoinLines(Tail(texts))

\* c?.text ?? JSON.stringify(c)
PartText(c) ==
    IF c.t = "null" THEN <<Prose>>
    ELSE IF c.text.t = "string" THEN c.text.text
    ELSE JsonOf("type")

OutItemText(o) ==
    IF o.t = "string" THEN o.text
    ELSE IF o.t = "message"
         THEN JoinLines([i \in 1..Len(o.content) |-> PartText(o.content[i])])
    ELSE JsonOf("type")

\* a resolver that knows only output_text
ResolverOutputTextOnly(resp) ==
    IF resp.output_text.t = "string" /\ NonBlank(resp.output_text.text)
    THEN resp.output_text.text
    ELSE StringifyResponse(resp)

extractTextFromResponsesApi(resp) ==
    LET parts == JoinLines([i \in 1..Len(resp.output.arr) |-> OutItemText(resp.output.arr[i])])
        cand == resp.candidates.arr[1]
    IN  IF resp.output_text.t = "string" /\ NonBlank(resp.output_text.text)
        THEN resp.output_text.text
        ELSE IF resp.output.t = "array" /\ parts # <<>>
        THEN parts
        ELSE IF resp.candidates.t = "array" /\ Len(resp.candidates.arr) > 0
        THEN IF cand.hasParts
             THEN IF \E i \in 1..Len(cand.parts) : cand.parts[i].t = "null"
                  \* p.text on null throws: the catch stringifies the response
                  THEN StringifyResponse(resp)
                  ELSE JoinLines([i \in 1..Len(cand.parts) |-> PartText(cand.parts[i])])
             ELSE JsonOf("content")
        ELSE StringifyResponse(resp)

(***************************************************************************)
(* JSON extraction and coercion (src/llm-2.js, extractInvoiceFromFile).     *)
(***************************************************************************)
\* one element of parsed.line_items.map(...)
CoerceItem(li) ==
    Item(Coalesce(li.description, Str(<<>>)),
         Or(ToNumber(li.quantity), Num(0)),
         Or(ToNumber(li.unit_price), Num(0)),
         Or(ToNumber(li.line_total),
            Times(ToNumber(Or(li.quantity, Num(0))), ToNumber(Or(li.unit_price, Num(0))))),
         IF li.confidence # Undef THEN ToNumber(li.confidence) ELSE Null)

CoerceAmount(v) == IF IsNullish(v) THEN v ELSE Or(ToNumber(v), Num(0))

CoerceItems(la) ==
    IF la.t = "array" THEN Arr([i \in 1..Len(la.arr) |-> CoerceItem(la.arr[i])])
    ELSE Arr(<<>>)

\* the block "sanitize/coerce numeric and item fields"
Coerce(parsed) ==
    [parsed EXCEPT !.subtotal = CoerceAmount(@),
                   !.total = CoerceAmount(@),
                   !.line_items = CoerceItems(@)]

\* li.description on a null element throws a TypeError
CoerceThrows(parsed) ==
    /\ parsed.line_items.t = "array"
    /\ \E i \in 1..Len(parsed.line_items.arr) : parsed.line_items.arr[i].t = "null"

LlmResult(ok, parsed, raw, error, called) ==
    [ok |-> ok, parsed |-> parsed, raw |-> raw, error |-> error, called |-> called]
NoResult == LlmResult(FALSE, EmptyObject, <<>>, "", FALSE)

\* const OPENAI_MODEL = process.env.OPENAI_MODEL || "gpt-4o-mini": the model the call names
OPENAI_MODEL(environment) == Or(environment.OPENAI_MODEL, Str(<<"gpt-4o-mini">>))

\* what client.responses.create does: it throws, or it resolves to a response
CallFails == [ok |-> FALSE, resp |-> Resp(NoText, NoList, NoList)]
CallReturns(resp) == [ok |-> TRUE, resp |-> resp]

\* extractInvoiceFromFile: hasKey is OPENAI_API_KEY being set, fileOk is
\* fs.readFileSync succeeding, call is the outcome of the backend call.
\* "called" records whether the backend call was issued.
extractInvoiceFromFile(hasKey, fileOk, call) ==
    LET rawOutput == HeDecode(extractTextFromResponsesApi(call.resp))
        firstJsonMatch == JsonMatch(rawOutput)
        p == JsonParse(firstJsonMatch.text)
    IN  IF ~hasKey
        THEN LlmResult(FALSE, EmptyObject, <<>>, "OPENAI_API_KEY environment variable not set", FALSE)
        ELSE IF ~fileOk
        THEN LlmResult(FALSE, EmptyObject, <<>>, "ENOENT", FALSE)
        ELSE IF ~call.ok
        THEN LlmResult(FALSE, EmptyObject, <<>>, "model call failed", TRUE)
        ELSE IF ~firstJsonMatch.found
        THEN LlmResult(FALSE, EmptyObject, rawOutput, "No JSON found in model output", TRUE)
        ELSE IF ~p.ok
        THEN LlmResult(FALSE, EmptyObject, rawOutput, "Model returned malformed JSON", TRUE)
        ELSE IF CoerceThrows(p.obj)
        THEN LlmResult(FALSE, EmptyObject, <<>>, "TypeError", TRUE)
        ELSE LlmResult(TRUE, Coerce(p.obj), rawOutput, "", TRUE)

(***************************************************************************)
(* Dates: new Date(s) on a date-only ISO string and toISOString().slice(0,  *)
(* 10); the DATE column's input check.                                      *)
(***************************************************************************)
IsIsoShape(s) ==
    /\ Len(s) = 10
    /\ \A i \in {1, 2, 3, 4, 6, 7, 9, 10} : IsDigit(s[i])
    /\ s[5] = "-"
    /\ s[8] = "-"

DaysIn(y, m) ==
    IF m = 2 THEN (IF y % 4 = 0 /\ (y % 100 # 0 \/ y % 400 = 0) THEN 29 ELSE 28)
    ELSE IF m \in {4, 6, 9, 11} THEN 30
    ELSE 31

TwoDigits(k) == <<DigitChars[(k \div 10) + 1], DigitChars[(k % 10) + 1]>>
FourDigits(k) == TwoDigits(k \div 100) \o TwoDigits(k % 100)
IsoOf(y, m, d) == FourDigits(y) \o <<"-">> \o TwoDigits(m) \o <<"-">> \o TwoDigits(d)

\* new Date(s): V8 reads YYYY-MM-DD as UTC midnight, takes a month of 1..12 and
\* a day of 1..31, and carries a day past the month's end into the next month;
\* any other string of this model is an Invalid Date.
JsDate(s) ==
    LET y == DigitsValue(SubSeq(s, 1, 4))
        m == DigitsValue(SubSeq(s, 6, 7))
        d == DigitsValue(SubSeq(s, 9, 10))
        ok == IsIsoShape(s) /\ m \in 1..12 /\ d \in 1..31
        over == ok /\ d > DaysIn(y, m)
    IN  [valid |-> ok,
         iso |-> IF ~ok THEN <<>>
                 ELSE IF ~over THEN IsoOf(y, m, d)
                 ELSE IF m = 12 THEN IsoOf(y + 1, 1, d - DaysIn(y, m))
                 ELSE IsoOf(y, m + 1, d - DaysIn(y, m))]

\* the DATE column takes NULL or a calendar date
DateIn(v) ==
    \/ IsNullish(v)
    \/ /\ v.t = "string"
       /\ IsIsoShape(v.s)
       /\ DigitsValue(SubSeq(v.s, 6, 7)) \in 1..12
       /\ DigitsValue(SubSeq(v.s, 9, 10)) \in
             1..DaysIn(DigitsValue(SubSeq(v.s, 1, 4)), DigitsValue(SubSeq(v.s, 6, 7)))

\* the DECIMAL column takes NULL, a number, or a string that spells one ('NaN' included)
NumericIn(v) ==
    \/ IsNullish(v)
    \/ v.t \in {"number", "NaN"}
    \/ /\ v.t = "string"
       /\ \/ StringToNumber(v.s).t = "number" /\ Trim(v.s) # <<>>
          \/ v.s = <<"NaN">>

\* what the DECIMAL column then holds
NumericOf(v) ==
    IF v.t = "string" THEN (IF v.s = <<"NaN">> THEN NaN ELSE StringToNumber(v.s))
    ELSE IF v.t = "undefined" THEN Null
    ELSE v

(***************************************************************************)
(* The two tables (the schema with the extraction columns) and their        *)
(* sample rows.                                                             *)
(***************************************************************************)
UPLOADED == Str(<<"UPLOADED">>)
EXTRACTED == Str(<<"EXTRACTED">>)
NEEDS_REVIEW == Str(<<"NEEDS_REVIEW">>)
SAVED == Str(<<"SAVED">>)
USD == Str(<<"USD">>)
INR == Str(<<"INR">>)

\* raw_llm_json: NULL, {raw}, {error}, an object, or {parsed, raw}
Payload(t, obj, raw, error) == [t |-> t, obj |-> obj, raw |-> raw, error |-> error]
NoPayload == Payload("null", EmptyObject, <<>>, "")

Row(file_path, supplier_name, invoice_number, invoice_date, subtotal, total, status, raw_llm_json, llm_model, extraction_at, created_at) ==
    [file_path |-> file_path, supplier_name |-> supplier_name,
     invoice_number |-> invoice_number, invoice_date |-> invoice_date,
     currency |-> USD, subtotal |-> subtotal, total |-> total, status |-> status,
     raw_llm_json |-> raw_llm_json, llm_model |-> llm_model,
     extraction_at |-> extraction_at, created_at |-> created_at,
     updated_at |-> created_at, confidence |-> Null]

\* id stands for the SERIAL id: <<the request that inserted the row, its place in
\* that request's inserts>>, unique and growing in insertion order
ItemRow(id, description, quantity, unit_price, line_total) ==
    [id |-> id, description |-> description, quantity |-> quantity,
     unit_price |-> unit_price, line_total |-> line_total, created_at |-> id[1]]

\* INSERT INTO invoices ... 'Acme Inc.' and 'Globex Corporation'
SampleInvoices ==
    (1 :> Row(Null, Str(<<"Acme">>), Str(<<"INV-", "1", "0", "0", "1">>),
              Str(<<"2", "0", "2", "5", "-", "1", "1", "-", "0", "1">>),
              Num(Units(1000)), Num(Units(1200)), EXTRACTED,
              Payload("object", EmptyObject, <<>>, ""), Str(<<"none">>), 0, 0))
    @@
    (2 :> Row(Null, Str(<<"Globex">>), Str(<<"2", "0", "2", "5", "-", "2", "0", "4">>),
              Str(<<"2", "0", "2", "5", "-", "1", "1", "-", "1", "0">>),
              Num(Units(380)), Num(45050), NEEDS_REVIEW, NoPayload, Null, -1, 0))

\* INSERT INTO line_items ...
SampleItems(id) ==
    IF id = 1 THEN <<ItemRow(<<0, 1>>, Str(<<"Consulting">>), Num(Units(10)), Num(Units(100)), Num(Units(1000)))>>
    ELSE IF id = 2 THEN <<ItemRow(<<0, 2>>, Str(<<"A">>), Num(Units(5)), Num(Units(50)), Num(Units(250))),
                          ItemRow(<<0, 3>>, Str(<<"B">>), Num(Units(2)), Num(Units(65)), Num(Units(130)))>>
    ELSE <<>>

\* SERIAL ids: the sample rows, then one per upload
Ids == 1..(2 + MaxUploads)

(***************************************************************************)
(* The state.                                                               *)
(***************************************************************************)
VARIABLES
    env,        \* process.env: OPENAI_API_KEY set or not, OPENAI_MODEL
    invoices,   \* the committed invoices table: id -> row
    line_items, \* the committed line_items table: invoice id -> its rows, by id
    nextId,     \* the invoices id sequence
    nreq,       \* requests started so far; NOW() is read from it
    req,        \* the requests in flight, one per slot
    probe       \* the input and the output of the coercion under test (SpecCoerce)

vars == <<env, invoices, line_items, nextId, nreq, req, probe>>

\* requests served at the same time
Slots == {1, 2}

\* the request body of PUT /:id
Body(supplier_name, invoice_number, invoice_date, currency, subtotal, total, items, status) ==
    [supplier_name |-> supplier_name, invoice_number |-> invoice_number,
     invoice_date |-> invoice_date, currency |-> currency, subtotal |-> subtotal,
     total |-> total, line_items |-> items, status |-> status]
EmptyBody == Body(Undef, Undef, Undef, Undef, Undef, Undef, NoArr, Undef)

BlankRow == Row(Null, Null, Null, Null, Num(0), Num(0), UPLOADED, NoPayload, Null, -1, 0)

\* A request: the handler's position, its locals, its connection and its response.
\*   row       invoiceRow, the row the extract handler read at its start
\*   client    "none", "held" (checked out of the pool) or "released"
\*   tx        the connection has an open transaction
\*   lock      the transaction holds the invoice's row lock
\*   matched   the UPDATE found the row; pendRow is the row it wrote
\*   del, ins  the line items the open transaction deleted (their ids) and inserted
\*   code, ok  the response's status and its ok field; out* its invoice and items
\*   nresp     responses sent; nrel: client.release() calls
\* and, recorded for the properties:
\*   wrote     a statement of the request changed the committed tables
\*   failedAt  the statement that rejected ("" when none did); rb: the ROLLBACK's outcome
\*   err       llmResult.error; status0: the status read at the start
\*   had       the line items the request's DELETE removed
\*   raced     another extraction of the same invoice was in its success path when
\*             this one took the row lock
\*   after     NOW() of the extraction of the same invoice that had committed in the
\*             other slot when this one committed (0 when there was none)
\*   seen      the line items that were committed when the SELECT read outRow
IdleReq ==
    [kind |-> "none", pc |-> "idle", id |-> 0, now |-> 0, hasFile |-> FALSE,
     row |-> BlankRow, llm |-> NoResult, body |-> EmptyBody, i |-> 0,
     client |-> "none", tx |-> FALSE, lock |-> FALSE, matched |-> FALSE,
     pendRow |-> BlankRow, del |-> {}, ins |-> <<>>,
     code |-> 0, ok |-> "none", outHas |-> FALSE, outRow |-> BlankRow, outItems |-> <<>>,
     nresp |-> 0, nrel |-> 0, wrote |-> FALSE, failedAt |-> "", rb |-> "none",
     err |-> "", status0 |-> Null, had |-> 0, raced |-> FALSE, after |-> 0, seen |-> <<>>]

Set(s, r) == req' = [req EXCEPT ![s] = r]

\* res.status(code).json(...): the handler returns, its locals are gone
Respond(r, code, ok) ==
    [r EXCEPT !.code = code, !.ok = ok, !.nresp = @ + 1, !.pc = "done",
              !.row = BlankRow, !.llm = NoResult, !.body = EmptyBody, !.i = 0,
              !.hasFile = FALSE, !.pendRow = BlankRow, !.del = {}, !.ins = <<>>]

\* a handler that releases on its success path only
ReleaseOnSuccess(r) ==
    IF r.client = "held" /\ r.failedAt = ""
    THEN [r EXCEPT !.client = "released", !.nrel = @ + 1, !.tx = FALSE, !.lock = FALSE]
    ELSE r

\* client.release(): the connection goes back to the pool
Release(r) ==
    IF r.client = "held"
    THEN [r EXCEPT !.client = "released", !.nrel = @ + 1, !.tx = FALSE, !.lock = FALSE]
    ELSE r

\* no other transaction holds the row lock of invoice id
LockFree(s, id) == \A t \in Slots \ {s} : ~(req[t].lock /\ req[t].id = id)

Exists(id) == id \in DOMAIN invoices

Free(s) == req[s].pc \in {"idle", "done"}

Init ==
    /\ env \in [OPENAI_API_KEY : BOOLEAN, OPENAI_MODEL : {Undef, Str(<<"gpt-4.1">>)}]
    /\ invoices = SampleInvoices
    /\ line_items = [id \in Ids |-> SampleItems(id)]
    /\ nextId = 3
    /\ nreq = 0
    /\ req = [s \in Slots |-> IdleReq]
    /\ probe = <<>>

(***************************************************************************)
(* The statements a handler sends on its connection.  Inside a transaction  *)
(* (after BEGIN) a write is pending until COMMIT; outside one it is         *)
(* committed at once.  An UPDATE or DELETE of an invoice row waits for the  *)
(* row lock (READ COMMITTED).  r1 is the request as it continues.            *)
(***************************************************************************)
\* a handler that never sends BEGIN
BeginTxSkipped(r) == r

\* BEGIN
BeginTx(r) == [r EXCEPT !.tx = TRUE]

\* UPDATE invoices SET ... WHERE id = $n may run
CanUpdate(s) == Exists(req[s].id) => LockFree(s, req[s].id)

\* UPDATE invoices SET ... WHERE id = $n, the row becoming newRow: the table, the request
RowsAfterUpdate(r, newRow) ==
    IF Exists(r.id) /\ ~r.tx THEN [invoices EXCEPT ![r.id] = newRow] ELSE invoices

ReqAfterUpdate(r, newRow) ==
    IF ~Exists(r.id) THEN r
    ELSE IF r.tx THEN [r EXCEPT !.lock = TRUE, !.matched = TRUE, !.pendRow = newRow]
    ELSE [r EXCEPT !.matched = TRUE, !.pendRow = newRow, !.wrote = TRUE]

\* the ids of the committed line items of invoice id
ItemIds(id) == {line_items[id][k].id : k \in 1..Len(line_items[id])}

\* DELETE FROM line_items WHERE invoice_id = $1: it removes the committed rows it sees
ItemsAfterDelete(r) ==
    IF r.tx THEN line_items ELSE [line_items EXCEPT ![r.id] = <<>>]

ReqAfterDelete(r) ==
    IF r.tx THEN [r EXCEPT !.del = ItemIds(r.id), !.ins = <<>>, !.had = Cardinality(ItemIds(r.id))]
    ELSE [r EXCEPT !.had = Cardinality(ItemIds(r.id)), !.wrote = @ \/ ItemIds(r.id) # {}]

\* INSERT INTO line_items: the foreign key wants the invoice row (guard Exists)
ItemsAfterInsert(r, item) ==
    IF r.tx THEN line_items ELSE [line_items EXCEPT ![r.id] = Append(@, item)]

ReqAfterInsert(r, item) ==
    IF r.tx THEN [r EXCEPT !.ins = Append(@, item)] ELSE [r EXCEPT !.wrote = TRUE]

\* COMMIT: the pending writes reach the tables together
RowsAfterCommit(r) ==
    IF r.tx /\ r.matched /\ Exists(r.id) THEN [invoices EXCEPT ![r.id] = r.pendRow]
    ELSE invoices

ItemsAfterCommit(r) ==
    IF r.tx
    THEN [line_items EXCEPT
            ![r.id] = SelectSeq(@, LAMBDA x : x.id \notin r.del) \o r.ins]
    ELSE line_items

ReqAfterCommit(r) ==
    IF r.tx
    THEN [r EXCEPT !.tx = FALSE, !.lock = FALSE,
                   !.wrote = @ \/ r.matched \/ r.del # {} \/ r.ins # <<>>]
    ELSE r

\* ROLLBACK, or the server ending the transaction of a connection it lost
EndTx(r) == [r EXCEPT !.tx = FALSE, !.lock = FALSE]

(***************************************************************************)
(* The inputs: what the backend answers and what a client sends.            *)
(***************************************************************************)
S_3 == Str(<<"3">>)
S_12_5 == Str(<<"1", "2", ".", "5">>)
S_abc == Str(<<"a", "b", "c">>)
D_Nov1 == Str(<<"2", "0", "2", "5", "-", "1", "1", "-", "0", "1">>)
D_Feb30 == Str(<<"2", "0", "2", "5", "-", "0", "2", "-", "3", "0">>)

\* a complete invoice, all values well typed
FullText ==
    <<LBrace, Member("supplier_name", Str(<<"Initech">>)), Comma,
      Member("invoice_number", Str(<<"A-7">>)), Comma,
      Member("invoice_date", D_Nov1), Comma,
      Member("currency", Str(<<"EUR">>)), Comma,
      Member("subtotal", Num(Units(100))), Comma,
      Member("total", Num(Units(120))), Comma,
      Member("confidence", Num(90)), Comma,
      ItemsMember(Arr(<<Item(Str(<<"Widget">>), Num(Units(2)), Num(Units(50)),
                            Num(Units(100)), Num(90))>>)),
      RBrace>>

\* prose around an object with numbers spelled as strings and most keys absent
LooseText ==
    <<Prose, Space, LBrace, Member("total", S_12_5), Comma,
      ItemsMember(Arr(<<Item(Undef, S_3, S_12_5, Undef, Undef),
                        Item(Undef, S_3, S_12_5, Null, Undef)>>)),
      RBrace, Space, Prose>>

\* values of the wrong kind: text for numbers, a negative total, the 30th of February
OddText ==
    <<LBrace, Member("invoice_date", D_Feb30), Comma,
      Member("subtotal", S_abc), Comma,
      Member("total", Num(0 - Units(5))), Comma,
      Member("confidence", S_abc), Comma,
      ItemsMember(Arr(<<Item(Null, S_abc, Num(Units(2)), Undef, S_abc)>>)),
      RBrace>>

NoJsonText == <<Prose>>

\* an object with a supplier name and nothing else: no amounts, no line items
BareText == <<LBrace, Member("supplier_name", Str(<<"Initech">>)), RBrace>>

\* the responses the backend call resolves to
Responses ==
    {Resp(TextVal(FullText), NoList, NoList),
     Resp(NoText, List(<<OutMessage(<<Part(TextVal(LooseText))>>)>>), NoList),
     Resp(TextVal(<<Space>>), NoList, List(<<Cand(TRUE, <<Part(TextVal(OddText))>>)>>)),
     Resp(TextVal(NoJsonText), NoList, NoList),
     Resp(TextVal(BareText), NoList, NoList)}

Calls == {CallFails} \cup {CallReturns(resp) : resp \in Responses}

NotAnArray == [t |-> "string", arr |-> <<>>]

\* the bodies a client sends to PUT /:id
PutBodies ==
    {EmptyBody,
     Body(Str(<<"Hooli">>), Str(<<"B-9">>), D_Nov1, INR, Num(Units(200)), Num(Units(240)),
          Arr(<<Item(Str(<<"Gadget">>), S_3, S_12_5, Undef, Undef)>>), SAVED),
     Body(Undef, Undef, Undef, Undef, Num(0 - Units(5)), Str(<<"NaN">>), Arr(<<>>), UPLOADED),
     Body(Undef, Undef, Undef, Undef, S_abc, Undef, NoArr, Undef),
     Body(Undef, Undef, Undef, Undef, Undef, Undef, NotAnArray, Undef),
     Body(Undef, Undef, Undef, Undef, Undef, Undef, Arr(<<NullItem>>), Undef)}

Kinds == {"upload", "extract", "put", "delete", "get"}

\* the invoices the requests address: reads and extractions the first sample row
\* and the uploaded invoices, manual updates and deletions the uploaded invoices
Targets(kind) == IF kind \in {"put", "delete"} THEN Ids \ {1, 2} ELSE Ids \ {2}

\* where each handler starts
FirstPc(kind) ==
    CASE kind = "upload" -> "insert"
      [] kind = "extract" -> "connect"
      [] kind = "put" -> "connect"
      [] kind = "delete" -> "fetch"
      [] OTHER -> "select"

\* a request arrives and takes the lowest free slot
StartRequest(s) ==
    /\ Free(s)
    /\ \A t \in Slots : t < s => ~Free(t)
    /\ nreq < MaxRequests
    /\ \E kind \in Kinds, id \in Ids, body \in PutBodies, hasFile \in BOOLEAN :
          /\ id \in Targets(kind)
          /\ kind # "put" => body = EmptyBody
          /\ kind # "upload" => hasFile = FALSE
          /\ kind = "upload" =>
                /\ id = nextId
                /\ \A t \in Slots : ~(req[t].kind = "upload" /\ req[t].pc # "done")
          /\ Set(s, [IdleReq EXCEPT !.kind = kind, !.pc = FirstPc(kind), !.id = id,
                                    !.now = nreq + 1, !.body = body, !.hasFile = hasFile])
    /\ nreq' = nreq + 1
    /\ UNCHANGED <<env, invoices, line_items, nextId, probe>>

(***************************************************************************)
(* POST /upload (src/routes/invoices.js 308-343).                           *)
(***************************************************************************)
\* the row INSERT INTO invoices (file_path, status, created_at, updated_at) makes
UploadedRow(now) == Row(Str(<<"uploads/file">>), Null, Null, Null, Num(0), Num(0),
                        UPLOADED, NoPayload, Null, -1, now)

Upload(s) ==
    LET r == req[s]
    IN  /\ r.kind = "upload" /\ r.pc = "insert"
        /\ IF ~r.hasFile
           THEN /\ Set(s, Respond(r, 400, "none"))
                /\ UNCHANGED <<invoices, nextId>>
           ELSE /\ invoices' = (nextId :> UploadedRow(r.now)) @@ invoices
                /\ nextId' = nextId + 1
                /\ Set(s, Respond([r EXCEPT !.wrote = TRUE], 201, "none"))
        /\ UNCHANGED <<env, line_items, nreq, probe>>

UploadThrows(s) ==
    LET r == req[s]
    IN  /\ r.kind = "upload" /\ r.pc = "insert" /\ r.hasFile
        /\ Set(s, Respond([r EXCEPT !.failedAt = r.pc], 500, "none"))
        /\ UNCHANGED <<env, invoices, line_items, nextId, nreq, probe>>

(***************************************************************************)
(* POST /:id/extract (src/routes/invoices.js 555-749).  One action per      *)
(* await: the statement's effect and the code up to the next await.         *)
(***************************************************************************)
\* a catch block that logs and answers nothing
CatchSilent(r) == [r EXCEPT !.pc = "done"]

\* the catch block's res.status(500).json(...)
CatchResponse(r) == Respond(r, 500, "none")

\* client = await db.connect()
ExtractConnect(s) ==
    LET r == req[s]
    IN  /\ r.kind = "extract" /\ r.pc = "connect"
        /\ Set(s, [r EXCEPT !.client = "held", !.pc = "select"])
        /\ UNCHANGED <<env, invoices, line_items, nextId, nreq, probe>>

\* db.connect() rejects: the catch finds no client, there is nothing to release
ExtractConnectFails(s) ==
    LET r == req[s]
    IN  /\ r.kind = "extract" /\ r.pc = "connect"
        /\ Set(s, CatchResponse([r EXCEPT !.failedAt = "connect"]))
        /\ UNCHANGED <<env, invoices, line_items, nextId, nreq, probe>>

\* SELECT * FROM invoices WHERE id = $1, the 404 and the 400
ExtractSelect(s) ==
    LET r == req[s]
    IN  /\ r.kind = "extract" /\ r.pc = "select"
        /\ IF ~Exists(r.id)
           THEN Set(s, Release(Respond(r, 404, "none")))
           ELSE IF ~Truthy(invoices[r.id].file_path)
           THEN Set(s, Release(Respond([r EXCEPT !.status0 = invoices[r.id].status],
                                       400, "none")))
           ELSE Set(s, [r EXCEPT !.row = invoices[r.id],
                                 !.status0 = invoices[r.id].status, !.pc = "llm"])
        /\ UNCHANGED <<env, invoices, line_items, nextId, nreq, probe>>

\* const llmResult = await extractInvoiceFromFile(absolutePath)
ExtractLlm(s) ==
    LET r == req[s]
    IN  /\ r.kind = "extract" /\ r.pc = "llm"
        /\ \E fileOk \in BOOLEAN, call \in Calls :
              LET llmResult == extractInvoiceFromFile(env.OPENAI_API_KEY, fileOk, call)
              IN  Set(s, [r EXCEPT !.llm = llmResult, !.err = llmResult.error,
                                   !.pc = IF llmResult.ok THEN "begin" ELSE "failUpdate"])
        /\ UNCHANGED <<env, invoices, line_items, nextId, nreq, probe>>

\* process.env.OPENAI_MODEL || null
StampedModel == Or(env.OPENAI_MODEL, Null)

\* llmResult.raw ? { raw } : { error: llmResult.error || "no output" }
RawPayload(llm) ==
    IF Len(llm.raw) > 0 THEN Payload("raw", EmptyObject, llm.raw, "")
    ELSE Payload("error", EmptyObject, <<>>, IF llm.error # "" THEN llm.error ELSE "no output")

\* a failure path that records the output and leaves the status alone
NeedsReviewRowKeepsStatus(old, r) ==
    [old EXCEPT !.raw_llm_json = RawPayload(r.llm),
                !.llm_model = StampedModel,
                !.extraction_at = r.now,
                !.updated_at = r.now]

\* a failure path that also resets the currency
NeedsReviewRowResetsCurrency(old, r) ==
    [old EXCEPT !.raw_llm_json = RawPayload(r.llm),
                !.llm_model = StampedModel,
                !.status = NEEDS_REVIEW,
                !.currency = Null,
                !.extraction_at = r.now,
                !.updated_at = r.now]

\* the row the failure path's UPDATE makes of the row it finds
NeedsReviewRow(old, r) ==
    [old EXCEPT !.raw_llm_json = RawPayload(r.llm),
                !.llm_model = StampedModel,
                !.status = NEEDS_REVIEW,
                !.extraction_at = r.now,
                !.updated_at = r.now]

\* the failure path: UPDATE ... status = 'NEEDS_REVIEW', then 200 { ok: false }
ExtractFailUpdate(s) ==
    LET r == req[s]
        newRow == NeedsReviewRow(invoices[r.id], r)
    IN  /\ r.kind = "extract" /\ r.pc = "failUpdate"
        /\ CanUpdate(s)
        /\ invoices' = RowsAfterUpdate(r, newRow)
        /\ Set(s, Release(Respond(ReqAfterUpdate(r, newRow), 200, "false")))
        /\ UNCHANGED <<env, line_items, nextId, nreq, probe>>

\* await client.query("BEGIN")
ExtractBegin(s) ==
    LET r == req[s]
    IN  /\ r.kind = "extract" /\ r.pc = "begin"
        /\ Set(s, [BeginTx(r) EXCEPT !.pc = "update"])
        /\ UNCHANGED <<env, invoices, line_items, nextId, nreq, probe>>

\* invoice_date: new Date(parsed.invoice_date), kept when it is a date
ExtractedDate(v) ==
    IF Truthy(v) /\ v.t = "string" /\ JsDate(v.s).valid THEN Str(JsDate(v.s).iso) ELSE Null

\* a fallback to 0 whatever the row holds
ExtractedAmountZero(v, old) == IF ~IsNullish(v) THEN Or(ParseFloat(v), Num(0)) ELSE Num(0)

\* subtotal and total: the parsed value, else the value of the row read at the start
ExtractedAmount(v, old) ==
    IF ~IsNullish(v) THEN Or(ParseFloat(v), Num(0))
    ELSE IF old # Null THEN ToNumber(old)
    ELSE Num(0)

\* a rawToStore that keeps the coerced object
RawToStoreCoerced(llm) == Payload("object", llm.parsed, <<>>, "")

\* rawToStore: the raw text when it parses as JSON, else { parsed, raw }
RawToStore(llm) ==
    IF NonBlank(llm.raw)
    THEN IF JsonParse(llm.raw).ok
         THEN Payload("object", JsonParse(llm.raw).obj, <<>>, "")
         ELSE Payload("wrapped", llm.parsed, llm.raw, "")
    ELSE Payload("object", llm.parsed, <<>>, "")

\* the row the success path's UPDATE makes of the row it finds
ExtractedRow(old, r) ==
    [old EXCEPT !.supplier_name = Coalesce(r.llm.parsed.supplier_name, Null),
                !.invoice_number = Coalesce(r.llm.parsed.invoice_number, Null),
                !.invoice_date = ExtractedDate(r.llm.parsed.invoice_date),
                !.currency = Coalesce(r.llm.parsed.currency, Coalesce(r.row.currency, INR)),
                !.subtotal = ExtractedAmount(r.llm.parsed.subtotal, r.row.subtotal),
                !.total = ExtractedAmount(r.llm.parsed.total, r.row.total),
                !.raw_llm_json = RawToStore(r.llm),
                !.llm_model = StampedModel,
                !.extraction_at = r.now,
                !.status = EXTRACTED,
                !.updated_at = r.now,
                !.confidence = Coalesce(r.llm.parsed.confidence, Null)]

\* another extraction of the same invoice is in its success path
Racing(s) ==
    \E t \in Slots \ {s} :
        /\ req[t].kind = "extract" /\ req[t].id = req[s].id
        /\ req[t].pc \in {"begin", "update"}

\* UPDATE invoices SET ... status = 'EXTRACTED' ... WHERE id = $9
ExtractUpdate(s) ==
    LET r == req[s]
        newRow == ExtractedRow(invoices[r.id], r)
        r1 == ReqAfterUpdate(r, newRow)
    IN  /\ r.kind = "extract" /\ r.pc = "update"
        /\ CanUpdate(s)
        /\ invoices' = RowsAfterUpdate(r, newRow)
        /\ Set(s, [r1 EXCEPT !.pc = "delete", !.raced = Racing(s)])
        /\ UNCHANGED <<env, line_items, nextId, nreq, probe>>

\* Array.isArray(parsed.line_items) ? parsed.line_items : []
ParsedItems(r) == IF r.llm.parsed.line_items.t = "array" THEN r.llm.parsed.line_items.arr ELSE <<>>

\* a success path without the DELETE
ExtractDeleteSkipped(s) ==
    LET r == req[s]
    IN  /\ r.kind = "extract" /\ r.pc = "delete"
        /\ Set(s, [r EXCEPT !.i = 1, !.pc = IF ParsedItems(r) = <<>> THEN "commit" ELSE "insert"])
        /\ UNCHANGED <<env, invoices, line_items, nextId, nreq, probe>>

\* DELETE FROM line_items WHERE invoice_id = $1
ExtractDelete(s) ==
    LET r == req[s]
    IN  /\ r.kind = "extract" /\ r.pc = "delete"
        /\ line_items' = ItemsAfterDelete(r)
        /\ Set(s, [ReqAfterDelete(r) EXCEPT
                      !.i = 1, !.pc = IF ParsedItems(r) = <<>> THEN "commit" ELSE "insert"])
        /\ UNCHANGED <<env, invoices, nextId, nreq, probe>>

\* the values of one INSERT INTO line_items of the loop
ExtractedItem(li, id) ==
    LET quantity == IF ~IsNullish(li.quantity) THEN Or(ParseFloat(li.quantity), Num(0))
                    ELSE Num(0)
        unit_price == IF ~IsNullish(li.unit_price) THEN Or(ParseFloat(li.unit_price), Num(0))
                      ELSE Num(0)
        line_total == IF ~IsNullish(li.line_total)
                      THEN Or(ParseFloat(li.line_total), Times(quantity, unit_price))
                      ELSE Times(quantity, unit_price)
    IN  ItemRow(id, Coalesce(li.description, Str(<<>>)), quantity, unit_price, line_total)

\* a loop that sends its INSERT on the pool (db.query), outside the transaction
ExtractInsertOnPool(s) ==
    LET r == req[s]
        item == ExtractedItem(ParsedItems(r)[r.i], <<r.now, r.i>>)
    IN  /\ r.kind = "extract" /\ r.pc = "insert"
        /\ Exists(r.id)
        /\ line_items' = [line_items EXCEPT ![r.id] = Append(@, item)]
        /\ Set(s, [r EXCEPT !.wrote = TRUE, !.i = r.i + 1,
                            !.pc = IF r.i = Len(ParsedItems(r)) THEN "commit" ELSE "insert"])
        /\ UNCHANGED <<env, invoices, nextId, nreq, probe>>

\* an INSERT INTO line_items whose foreign key is not checked
ExtractInsertUnchecked(s) ==
    LET r == req[s]
        item == ExtractedItem(ParsedItems(r)[r.i], <<r.now, r.i>>)
    IN  /\ r.kind = "extract" /\ r.pc = "insert"
        /\ line_items' = ItemsAfterInsert(r, item)
        /\ Set(s, [ReqAfterInsert(r, item) EXCEPT
                      !.i = r.i + 1,
                      !.pc = IF r.i = Len(ParsedItems(r)) THEN "commit" ELSE "insert"])
        /\ UNCHANGED <<env, invoices, nextId, nreq, probe>>

\* INSERT INTO line_items ... for the next element of parsedItems
ExtractInsert(s) ==
    LET r == req[s]
        item == ExtractedItem(ParsedItems(r)[r.i], <<r.now, r.i>>)
    IN  /\ r.kind = "extract" /\ r.pc = "insert"
        /\ Exists(r.id)
        /\ line_items' = ItemsAfterInsert(r, item)
        /\ Set(s, [ReqAfterInsert(r, item) EXCEPT
                      !.i = r.i + 1,
                      !.pc = IF r.i = Len(ParsedItems(r)) THEN "commit" ELSE "insert"])
        /\ UNCHANGED <<env, invoices, nextId, nreq, probe>>

\* NOW() of the extraction of the same invoice that has committed in the other slot
CommittedBefore(s) ==
    LET done == {t \in Slots \ {s} :
                    /\ req[t].kind = "extract" /\ req[t].id = req[s].id
                    /\ req[t].pc \in {"refetch", "refetchItems", "done"}
                    /\ req[t].matched /\ req[t].wrote}
    IN  IF done = {} THEN 0 ELSE req[CHOOSE t \in done : TRUE].now

\* await client.query("COMMIT")
ExtractCommit(s) ==
    LET r == req[s]
    IN  /\ r.kind = "extract" /\ r.pc = "commit"
        /\ invoices' = RowsAfterCommit(r)
        /\ line_items' = ItemsAfterCommit(r)
        /\ Set(s, [ReqAfterCommit(r) EXCEPT !.pc = "refetch", !.after = CommittedBefore(s)])
        /\ UNCHANGED <<env, nextId, nreq, probe>>

\* refetch: SELECT * FROM invoices WHERE id = $1
ExtractRefetch(s) ==
    LET r == req[s]
    IN  /\ r.kind = "extract" /\ r.pc = "refetch"
        /\ Set(s, [r EXCEPT !.outHas = Exists(r.id),
                            !.outRow = IF Exists(r.id) THEN invoices[r.id] ELSE BlankRow,
                            !.seen = line_items[r.id],
                            !.pc = "refetchItems"])
        /\ UNCHANGED <<env, invoices, line_items, nextId, nreq, probe>>

\* refetch: SELECT ... FROM line_items ... ORDER BY id ASC, then { ok: true, ... }
ExtractRefetchItems(s) ==
    LET r == req[s]
    IN  /\ r.kind = "extract" /\ r.pc = "refetchItems"
        /\ Set(s, Release(Respond([r EXCEPT !.outItems = line_items[r.id]], 200, "true")))
        /\ UNCHANGED <<env, invoices, line_items, nextId, nreq, probe>>

\* the statement the handler awaits rejects: control goes to the catch block
ExtractThrows(s) ==
    LET r == req[s]
    IN  /\ r.kind = "extract"
        /\ r.pc \in {"select", "failUpdate", "begin", "update", "delete", "insert",
                     "commit", "refetch", "refetchItems"}
        /\ Set(s, [r EXCEPT !.failedAt = r.pc, !.pc = "rollback"])
        /\ UNCHANGED <<env, invoices, line_items, nextId, nreq, probe>>

\* catch: ROLLBACK (its own failure ignored), 500; finally: client.release()
ExtractRollback(s) ==
    LET r == req[s]
    IN  /\ r.kind = "extract" /\ r.pc = "rollback"
        /\ \E rolledBack \in BOOLEAN :
              Set(s, Release(CatchResponse(
                        [EndTx(r) EXCEPT !.rb = IF rolledBack THEN "ok" ELSE "failed"])))
        /\ UNCHANGED <<env, invoices, line_items, nextId, nreq, probe>>

(***************************************************************************)
(* PUT /:id (src/routes/invoices.js 414-505).                               *)
(***************************************************************************)
\* const client = await db.connect(), then the validation of line_items
PutConnect(s) ==
    LET r == req[s]
        held == [r EXCEPT !.client = "held"]
    IN  /\ r.kind = "put" /\ r.pc = "connect"
        /\ IF r.body.line_items.t \notin {"undefined", "array"}
           THEN Set(s, Release(Respond(held, 400, "none")))
           ELSE Set(s, [held EXCEPT !.pc = "begin"])
        /\ UNCHANGED <<env, invoices, line_items, nextId, nreq, probe>>

\* db.connect() rejects outside the try block: the handler's promise rejects and
\* no response is written
PutConnectFails(s) ==
    LET r == req[s]
    IN  /\ r.kind = "put" /\ r.pc = "connect"
        /\ Set(s, [r EXCEPT !.failedAt = "connect", !.pc = "done", !.body = EmptyBody])
        /\ UNCHANGED <<env, invoices, line_items, nextId, nreq, probe>>

PutBegin(s) ==
    LET r == req[s]
    IN  /\ r.kind = "put" /\ r.pc = "begin"
        /\ Set(s, [BeginTx(r) EXCEPT !.pc = "update"])
        /\ UNCHANGED <<env, invoices, line_items, nextId, nreq, probe>>

\* the parameters of the UPDATE: supplier_name || null, ..., subtotal || 0, status || null
UpdateParams(b) ==
    [supplier_name |-> Or(b.supplier_name, Null),
     invoice_number |-> Or(b.invoice_number, Null),
     invoice_date |-> Or(b.invoice_date, Null),
     currency |-> Or(b.currency, USD),
     subtotal |-> Or(b.subtotal, Num(0)),
     total |-> Or(b.total, Num(0)),
     status |-> Or(b.status, Null)]

\* the DATE and DECIMAL columns take the parameters
UpdateTypesOk(b) ==
    /\ DateIn(UpdateParams(b).invoice_date)
    /\ NumericIn(UpdateParams(b).subtotal)
    /\ NumericIn(UpdateParams(b).total)

\* an UPDATE without status = COALESCE($7, status)
UpdatedRowKeepsStatus(old, r) ==
    [old EXCEPT !.supplier_name = UpdateParams(r.body).supplier_name,
                !.invoice_number = UpdateParams(r.body).invoice_number,
                !.invoice_date = UpdateParams(r.body).invoice_date,
                !.currency = UpdateParams(r.body).currency,
                !.subtotal = NumericOf(UpdateParams(r.body).subtotal),
                !.total = NumericOf(UpdateParams(r.body).total),
                !.updated_at = r.now]

\* the row the UPDATE makes of the row it finds
UpdatedRow(old, r) ==
    [old EXCEPT !.supplier_name = UpdateParams(r.body).supplier_name,
                !.invoice_number = UpdateParams(r.body).invoice_number,
                !.invoice_date = UpdateParams(r.body).invoice_date,
                !.currency = UpdateParams(r.body).currency,
                !.subtotal = NumericOf(UpdateParams(r.body).subtotal),
                !.total = NumericOf(UpdateParams(r.body).total),
                !.status = Coalesce(UpdateParams(r.body).status, old.status),
                !.updated_at = r.now]

BodyItems(r) == IF r.body.line_items.t = "array" THEN r.body.line_items.arr ELSE <<>>

\* where the loop over line_items goes next: item.quantity of a null item throws
LoopPc(items, i) ==
    IF i > Len(items) THEN "commit"
    ELSE IF items[i].t = "null" THEN "rollback"
    ELSE "insert"

\* UPDATE invoices SET ... WHERE id = $8 RETURNING *
PutUpdate(s) ==
    LET r == req[s]
        newRow == UpdatedRow(invoices[r.id], r)
        r1 == ReqAfterUpdate(r, newRow)
    IN  /\ r.kind = "put" /\ r.pc = "update"
        /\ UpdateTypesOk(r.body)
        /\ CanUpdate(s)
        /\ invoices' = RowsAfterUpdate(r, newRow)
        /\ Set(s, [r1 EXCEPT !.pc = IF Exists(r.id) THEN "delete" ELSE "notfound"])
        /\ UNCHANGED <<env, line_items, nextId, nreq, probe>>

\* no row was updated: ROLLBACK, then 404
PutNotFound(s) ==
    LET r == req[s]
    IN  /\ r.kind = "put" /\ r.pc = "notfound"
        /\ Set(s, Release(Respond(EndTx(r), 404, "none")))
        /\ UNCHANGED <<env, invoices, line_items, nextId, nreq, probe>>

\* a PUT that does not delete the stored line items before its inserts
PutDeleteSkipped(s) ==
    LET r == req[s]
        next == LoopPc(BodyItems(r), 1)
    IN  /\ r.kind = "put" /\ r.pc = "delete"
        /\ UNCHANGED line_items
        /\ Set(s, [r EXCEPT !.had = Cardinality(ItemIds(r.id)), !.i = 1, !.pc = next,
                            !.failedAt = IF next = "rollback" THEN "loop" ELSE @])
        /\ UNCHANGED <<env, invoices, nextId, nreq, probe>>

\* DELETE FROM line_items WHERE invoice_id = $1
PutDelete(s) ==
    LET r == req[s]
        next == LoopPc(BodyItems(r), 1)
    IN  /\ r.kind = "put" /\ r.pc = "delete"
        /\ line_items' = ItemsAfterDelete(r)
        /\ Set(s, [ReqAfterDelete(r) EXCEPT
                      !.i = 1, !.pc = next,
                      !.failedAt = IF next = "rollback" THEN "loop" ELSE @])
        /\ UNCHANGED <<env, invoices, nextId, nreq, probe>>

\* the values of one INSERT INTO line_items of the loop
UpdatedItem(item, id) ==
    LET qty == Or(ParseFloat(item.quantity), Num(0))
        unit == Or(ParseFloat(item.unit_price), Num(0))
        line_total == Or(ParseFloat(item.line_total), Times(qty, unit))
    IN  ItemRow(id, Or(item.description, Str(<<>>)), qty, unit, line_total)

PutInsert(s) ==
    LET r == req[s]
        item == UpdatedItem(BodyItems(r)[r.i], <<r.now, r.i>>)
        next == LoopPc(BodyItems(r), r.i + 1)
    IN  /\ r.kind = "put" /\ r.pc = "insert"
        /\ Exists(r.id)
        /\ line_items' = ItemsAfterInsert(r, item)
        /\ Set(s, [ReqAfterInsert(r, item) EXCEPT
                      !.i = r.i + 1, !.pc = next,
                      !.failedAt = IF next = "rollback" THEN "loop" ELSE @])
        /\ UNCHANGED <<env, invoices, nextId, nreq, probe>>

\* COMMIT, then res.json({ ...updateResult.rows[0], line_items: insertedItems })
PutCommit(s) ==
    LET r == req[s]
        answered == [ReqAfterCommit(r) EXCEPT !.outHas = TRUE, !.outRow = r.pendRow,
                                              !.outItems = r.ins]
    IN  /\ r.kind = "put" /\ r.pc = "commit"
        /\ invoices' = RowsAfterCommit(r)
        /\ line_items' = ItemsAfterCommit(r)
        /\ Set(s, Release(Respond(answered, 200, "none")))
        /\ UNCHANGED <<env, nextId, nreq, probe>>

PutThrows(s) ==
    LET r == req[s]
    IN  /\ r.kind = "put"
        /\ r.pc \in {"begin", "update", "notfound", "delete", "insert", "commit"}
        /\ Set(s, [r EXCEPT !.failedAt = r.pc, !.pc = "rollback"])
        /\ UNCHANGED <<env, invoices, line_items, nextId, nreq, probe>>

\* catch: ROLLBACK (its own failure ignored), 500; finally: client.release()
PutRollback(s) ==
    LET r == req[s]
    IN  /\ r.kind = "put" /\ r.pc = "rollback"
        /\ \E rolledBack \in BOOLEAN :
              Set(s, Release(Respond([EndTx(r) EXCEPT !.rb = IF rolledBack THEN "ok" ELSE "failed"],
                                     500, "none")))
        /\ UNCHANGED <<env, invoices, line_items, nextId, nreq, probe>>

(***************************************************************************)
(* DELETE /:id (507-552) and GET /:id (379-412): statements on the pool.    *)
(***************************************************************************)
\* SELECT file_path FROM invoices WHERE id = $1
DeleteFetch(s) ==
    LET r == req[s]
    IN  /\ r.kind = "delete" /\ r.pc = "fetch"
        /\ IF Exists(r.id) THEN Set(s, [r EXCEPT !.pc = "delete"])
           ELSE Set(s, Respond(r, 404, "none"))
        /\ UNCHANGED <<env, invoices, line_items, nextId, nreq, probe>>

\* DELETE FROM invoices WHERE id = $1 RETURNING id; the line items go with the row
DeleteInvoice(s) ==
    LET r == req[s]
    IN  /\ r.kind = "delete" /\ r.pc = "delete"
        /\ CanUpdate(s)
        /\ IF Exists(r.id)
           THEN /\ invoices' = [k \in DOMAIN invoices \ {r.id} |-> invoices[k]]
                /\ line_items' = [line_items EXCEPT ![r.id] = <<>>]
                /\ Set(s, Respond([r EXCEPT !.wrote = TRUE], 200, "none"))
           ELSE /\ Set(s, Respond(r, 404, "none"))
                /\ UNCHANGED <<invoices, line_items>>
        /\ UNCHANGED <<env, nextId, nreq, probe>>

DeleteThrows(s) ==
    LET r == req[s]
    IN  /\ r.kind = "delete" /\ r.pc \in {"fetch", "delete"}
        /\ Set(s, Respond([r EXCEPT !.failedAt = r.pc], 500, "none"))
        /\ UNCHANGED <<env, invoices, line_items, nextId, nreq, probe>>

\* SELECT * FROM invoices WHERE id = $1
GetSelect(s) ==
    LET r == req[s]
    IN  /\ r.kind = "get" /\ r.pc = "select"
        /\ IF Exists(r.id)
           THEN Set(s, [r EXCEPT !.outHas = TRUE, !.outRow = invoices[r.id],
                                 !.seen = line_items[r.id], !.pc = "items"])
           ELSE Set(s, Respond(r, 404, "none"))
        /\ UNCHANGED <<env, invoices, line_items, nextId, nreq, probe>>

\* SELECT ... FROM line_items WHERE invoice_id = $1 ORDER BY id ASC, then res.json
GetItems(s) ==
    LET r == req[s]
    IN  /\ r.kind = "get" /\ r.pc = "items"
        /\ Set(s, Respond([r EXCEPT !.outItems = line_items[r.id]], 200, "none"))
        /\ UNCHANGED <<env, invoices, line_items, nextId, nreq, probe>>

GetThrows(s) ==
    LET r == req[s]
    IN  /\ r.kind = "get" /\ r.pc \in {"select", "items"}
        /\ Set(s, Respond([r EXCEPT !.failedAt = r.pc, !.outHas = FALSE, !.outRow = BlankRow],
                          500, "none"))
        /\ UNCHANGED <<env, invoices, line_items, nextId, nreq, probe>>

(***************************************************************************)
(* The server: requests arrive and their handlers' steps interleave.        *)
(***************************************************************************)
Next ==
    \E s \in Slots :
        \/ StartRequest(s)
        \/ Upload(s)
        \/ UploadThrows(s)
        \/ ExtractConnect(s)
        \/ ExtractConnectFails(s)
        \/ ExtractSelect(s)
        \/ ExtractLlm(s)
        \/ ExtractFailUpdate(s)
        \/ ExtractBegin(s)
        \/ ExtractUpdate(s)
        \/ ExtractDelete(s)
        \/ ExtractInsert(s)
        \/ ExtractCommit(s)
        \/ ExtractRefetch(s)
        \/ ExtractRefetchItems(s)
        \/ ExtractThrows(s)
        \/ ExtractRollback(s)
        \/ PutConnect(s)
        \/ PutConnectFails(s)
        \/ PutBegin(s)
        \/ PutUpdate(s)
        \/ PutNotFound(s)
        \/ PutDelete(s)
        \/ PutInsert(s)
        \/ PutCommit(s)
        \/ PutThrows(s)
        \/ PutRollback(s)
        \/ DeleteFetch(s)
        \/ DeleteInvoice(s)
        \/ DeleteThrows(s)
        \/ GetSelect(s)
        \/ GetItems(s)
        \/ GetThrows(s)

Spec == Init /\ [][Next]_vars

(***************************************************************************)
(* The coercion of one line item on its own: llm-2.js coerces the item the  *)
(* model gave, the route's loop computes the values it inserts.             *)
(***************************************************************************)
\* what a JSON value of a line item can be: absent, null, a number, a string, a boolean
ItemValues ==
    {Undef, Null, Num(0), Num(Units(2)), Num(0 - 150), S_3, S_12_5, S_abc, Str(<<>>),
     Bool(TRUE)}

Probe(stage, li, out, row) == [stage |-> stage, li |-> li, out |-> out, row |-> row]

InitCoerce ==
    /\ env = [OPENAI_API_KEY |-> TRUE, OPENAI_MODEL |-> Undef]
    /\ invoices = SampleInvoices
    /\ line_items = [id \in Ids |-> SampleItems(id)]
    /\ nextId = 3
    /\ nreq = 0
    /\ req = [s \in Slots |-> IdleReq]
    /\ \E quantity \in ItemValues, unit_price \in ItemValues, line_total \in ItemValues :
          probe = Probe("parsed", Item(Undef, quantity, unit_price, line_total, Undef),
                        NullItem, ItemRow(<<0, 0>>, Null, Null, Null, Null))

\* llm-2.js: parsed.line_items.map(...)
CoerceLineItem ==
    /\ probe.stage = "parsed"
    /\ probe' = [probe EXCEPT !.stage = "coerced", !.out = CoerceItem(probe.li)]
    /\ UNCHANGED <<env, invoices, line_items, nextId, nreq, req>>

\* routes/invoices.js: the values the loop inserts for the coerced item
StoreLineItem ==
    /\ probe.stage = "coerced"
    /\ probe' = [probe EXCEPT !.stage = "stored", !.row = ExtractedItem(probe.out, <<1, 1>>)]
    /\ UNCHANGED <<env, invoices, line_items, nextId, nreq, req>>

NextCoerce == CoerceLineItem \/ StoreLineItem

SpecCoerce == InitCoerce /\ [][NextCoerce]_vars

(***************************************************************************)
(* The coercion block applied to its own output: llm-2.js, lines 159-175,   *)
(* run on a parsed object and then once more on the object it produced.     *)
(***************************************************************************)
\* the confidences a line item of the model's output can carry
ConfidenceValues == {Undef, Null, Num(50), S_abc}

\* the objects JSON.parse can hand to the coercion block
ParsedObjects ==
    {[EmptyObject EXCEPT !.subtotal = subtotal, !.total = total, !.line_items = la] :
        subtotal \in ItemValues, total \in {Undef, S_12_5},
        la \in {NoArr, Arr(<<>>)} \cup
               {Arr(<<Item(description, quantity, Num(Units(2)), line_total, confidence)>>) :
                    description \in {Undef, Str(<<"x">>)},
                    quantity \in {Num(Units(2)), S_abc},
                    line_total \in {Undef, S_12_5},
                    confidence \in ConfidenceValues}}

InitRecoerce ==
    /\ env = [OPENAI_API_KEY |-> TRUE, OPENAI_MODEL |-> Undef]
    /\ invoices = SampleInvoices
    /\ line_items = [id \in Ids |-> SampleItems(id)]
    /\ nextId = 3
    /\ nreq = 0
    /\ req = [s \in Slots |-> IdleReq]
    /\ \E parsed \in ParsedObjects :
          probe = Probe("parsed", parsed, EmptyObject, ItemRow(<<0, 0>>, Null, Null, Null, Null))

\* llm-2.js: if (parsed) { ... } on the object JSON.parse returned
CoerceParsed ==
    /\ probe.stage = "parsed"
    /\ probe' = [probe EXCEPT !.stage = "coerced", !.out = Coerce(probe.li)]
    /\ UNCHANGED <<env, invoices, line_items, nextId, nreq, req>>

\* the same block on the object it has produced: li is the coerced object, out
\* the object coerced twice
CoerceAgain ==
    /\ probe.stage = "coerced"
    /\ probe' = [probe EXCEPT !.stage = "recoerced", !.li = probe.out,
                              !.out = Coerce(probe.out)]
    /\ UNCHANGED <<env, invoices, line_items, nextId, nreq, req>>

NextRecoerce == CoerceParsed \/ CoerceAgain

SpecRecoerce == InitRecoerce /\ [][NextRecoerce]_vars

(***************************************************************************)
(* One backend response taken through the pipeline on its own: the Response *)
(* Resolver, extractInvoiceFromFile on the resolved text, and the row the   *)
(* route's UPDATE makes of an uploaded invoice.                             *)
(***************************************************************************)
\* the longest text the backend returns here
MaxTextLen == 4

S_AmpName == Str(<<"A", "&amp;", "B">>)

\* the lexical tokens a text is made of
TextTokens ==
    {LBrace, RBrace, EntLBrace, EntRBrace, Prose, Space,
     Member("total", S_12_5), Member("supplier_name", S_AmpName)}

RECURSIVE TextsOfLen(_)
TextsOfLen(n) ==
    IF n = 0 THEN {<<>>}
    ELSE {Append(t, tok) : t \in TextsOfLen(n - 1), tok \in TextTokens}

Texts == UNION {TextsOfLen(n) : n \in 0..MaxTextLen}

\* an object whose currency, subtotal and total are null
NullsText ==
    <<LBrace, Member("currency", Null), Comma, Member("subtotal", Null), Comma,
      Member("total", Null), Comma, Member("confidence", Null), RBrace>>

\* what resp.output can be
OutputLists ==
    {NoList, List(<<>>), List(<<OutString(<<Prose, EntAmp>>)>>), List(<<OutObject>>),
     List(<<OutMessage(<<Part(TextVal(LooseText)), Part(NoText)>>)>>),
     List(<<OutMessage(<<NullPart>>), OutString(<<Space>>)>>),
     List(<<OutString(<<>>)>>)}

\* what resp.candidates can be
CandidateLists ==
    {NoList, List(<<>>), List(<<Cand(FALSE, <<>>)>>), List(<<Cand(TRUE, <<>>)>>),
     List(<<Cand(TRUE, <<Part(TextVal(OddText)), Part(NoText)>>)>>),
     List(<<Cand(TRUE, <<Part(TextVal(NoJsonText)), NullPart>>)>>)}

\* the response objects the backend can return
ResponseObjects ==
    {Resp(TextVal(text), NoList, NoList) : text \in Texts} \cup
    {Resp(ot, out, cands) :
        ot \in {NoText, TextVal(<<>>), TextVal(<<Space>>), TextVal(FullText), TextVal(NullsText)},
        out \in OutputLists, cands \in CandidateLists}

\* the row an extraction finds: as uploaded, with no currency and no amounts, or
\* with values of an earlier edit
ExistingRows ==
    {UploadedRow(0),
     [UploadedRow(0) EXCEPT !.currency = Null, !.subtotal = Null, !.total = Null],
     [UploadedRow(0) EXCEPT !.currency = Str(<<"GBP">>), !.subtotal = Num(Units(1000)),
                            !.total = Num(Units(1200)), !.status = SAVED]}

InitPipeline ==
    /\ env = [OPENAI_API_KEY |-> TRUE, OPENAI_MODEL |-> Undef]
    /\ invoices = SampleInvoices
    /\ line_items = [id \in Ids |-> SampleItems(id)]
    /\ nextId = 3
    /\ nreq = 0
    /\ req = [s \in Slots |-> IdleReq]
    /\ \E resp \in ResponseObjects, row \in ExistingRows :
          probe = Probe("response", resp, <<>>, row)

\* extractTextFromResponsesApi(resp): li is the response, out the resolved text
ResolveText ==
    /\ probe.stage = "response"
    /\ probe' = [probe EXCEPT !.stage = "resolved", !.out = extractTextFromResponsesApi(probe.li)]
    /\ UNCHANGED <<env, invoices, line_items, nextId, nreq, req>>

\* the rest of extractInvoiceFromFile: li is the resolved text, out the result
ExtractFromText ==
    /\ probe.stage = "resolved"
    /\ probe' = [probe EXCEPT !.stage = "extracted", !.li = probe.out,
                              !.out = extractInvoiceFromFile(TRUE, TRUE, CallReturns(probe.li))]
    /\ UNCHANGED <<env, invoices, line_items, nextId, nreq, req>>

\* the route's UPDATE of the uploaded invoice: row is the row it writes
PersistResult ==
    LET r == [IdleReq EXCEPT !.llm = probe.out, !.row = probe.row, !.now = 1]
    IN  /\ probe.stage = "extracted"
        /\ probe' = [probe EXCEPT !.stage = "persisted",
                                  !.row = IF probe.out.ok THEN ExtractedRow(probe.row, r)
                                          ELSE NeedsReviewRow(probe.row, r)]
        /\ UNCHANGED <<env, invoices, line_items, nextId, nreq, req>>

NextPipeline == ResolveText \/ ExtractFromText \/ PersistResult

SpecPipeline == InitPipeline /\ [][NextPipeline]_vars

(***************************************************************************)
(* One extraction attempt up to the backend call, for the two variants of   *)
(* extractInvoiceFromFile: src/llm-2.js (OpenAI SDK) and src/llm.js (fetch). *)
(***************************************************************************)
\* src/llm.js, lines 16-79: the file is read, then fetch is issued with the header
\* Authorization: `Bearer ${process.env.OPENAI_API_KEY}`; nothing tests the key
FetchVariantInvoke(hasKey, fileOk, call) ==
    IF ~fileOk
    THEN LlmResult(FALSE, EmptyObject, <<>>, "ENOENT", FALSE)
    ELSE IF ~call.ok
    THEN LlmResult(FALSE, EmptyObject, <<>>, "fetch failed", TRUE)
    ELSE LlmResult(TRUE, EmptyObject, <<>>, "", TRUE)

\* src/llm-2.js, lines 77-133: the key is tested, the file is read, then
\* client.responses.create is issued
SdkVariantInvoke(hasKey, fileOk, call) == extractInvoiceFromFile(hasKey, fileOk, call)

Attempt(variant, hasKey, file_path, fileOk, call) ==
    [variant |-> variant, hasKey |-> hasKey, file_path |-> file_path, fileOk |-> fileOk,
     call |-> call]

InitInvoke ==
    /\ env = [OPENAI_API_KEY |-> TRUE, OPENAI_MODEL |-> Undef]
    /\ invoices = SampleInvoices
    /\ line_items = [id \in Ids |-> SampleItems(id)]
    /\ nextId = 3
    /\ nreq = 0
    /\ req = [s \in Slots |-> IdleReq]
    /\ \E variant \in {"sdk", "fetch"}, hasKey \in BOOLEAN, fileOk \in BOOLEAN,
          file_path \in {Null, Str(<<>>), Str(<<"uploads/file">>)}, call \in Calls :
          probe = Probe("attempt", Attempt(variant, hasKey, file_path, fileOk, call),
                        NoResult, BlankRow)

\* routes/invoices.js: if (!filePath) return res.status(400)
RejectNoFile ==
    /\ probe.stage = "attempt"
    /\ ~Truthy(probe.li.file_path)
    /\ probe' = [probe EXCEPT !.stage = "rejected"]
    /\ UNCHANGED <<env, invoices, line_items, nextId, nreq, req>>

\* routes/invoices.js: await extractInvoiceFromFile(absolutePath)
InvokeLlm ==
    /\ probe.stage = "attempt"
    /\ Truthy(probe.li.file_path)
    /\ probe' = [probe EXCEPT
                    !.stage = "invoked",
                    !.out = IF probe.li.variant = "sdk"
                            THEN SdkVariantInvoke(probe.li.hasKey, probe.li.fileOk, probe.li.call)
                            ELSE FetchVariantInvoke(probe.li.hasKey, probe.li.fileOk, probe.li.call)]
    /\ UNCHANGED <<env, invoices, line_items, nextId, nreq, req>>

NextInvoke == RejectNoFile \/ InvokeLlm

SpecInvoke == InitInvoke /\ [][NextInvoke]_vars

(***************************************************************************)
(* The connection of one extract request, in the two variants of the        *)
(* handler: src/unnamed/part_000 285-409 calls client.release() by hand     *)
(* before each return and in its catch block ("manual");                    *)
(* src/routes/invoices.js 555-749 releases in a finally block ("finally").  *)
(* Every client.query may reject, and the call that sends the response may  *)
(* throw; both lead to the catch block.                                     *)
(***************************************************************************)
MaxItems == 2

\* the statements the handler sends with client.query
HandlerStatements ==
    {"select", "failUpdate", "begin", "update", "delete", "insert", "commit",
     "refetch", "refetchItems"}

\* the request after db.connect(): nrel counts the client.release() calls, late the
\* statements sent on the connection after it was released
Handler(variant, exists, hasFile, llmOk, nItems) ==
    [variant |-> variant, exists |-> exists, hasFile |-> hasFile, llmOk |-> llmOk,
     nItems |-> nItems, pc |-> "select", i |-> 0, client |-> "held", nrel |-> 0,
     late |-> 0, failedAt |-> ""]

\* client.release()
ClientRelease(h) == [h EXCEPT !.client = "released", !.nrel = @ + 1]

\* client.query(...)
ClientQuery(h) == [h EXCEPT !.late = IF h.client = "released" THEN @ + 1 ELSE @]

\* part_000: client.release() written before the return of a response
ReleaseBeforeReturn(h) == IF h.variant = "manual" THEN ClientRelease(h) ELSE h

\* invoices.js: finally { if (client) client.release() }
Finally(h) == IF h.variant = "finally" THEN ClientRelease(h) ELSE h

\* where the handler goes when the statement at h.pc has resolved
AfterStatement(h) ==
    CASE h.pc = "select" -> IF h.exists /\ h.hasFile THEN "llm" ELSE "respond"
      [] h.pc = "failUpdate" -> "respond"
      [] h.pc = "begin" -> "update"
      [] h.pc = "update" -> "delete"
      [] h.pc = "delete" -> IF h.nItems > 0 THEN "insert" ELSE "commit"
      [] h.pc = "insert" -> IF h.i + 1 < h.nItems THEN "insert" ELSE "commit"
      [] h.pc = "commit" -> "refetch"
      [] h.pc = "refetch" -> "refetchItems"
      [] OTHER -> "respond"

InitRelease ==
    /\ env = [OPENAI_API_KEY |-> TRUE, OPENAI_MODEL |-> Undef]
    /\ invoices = SampleInvoices
    /\ line_items = [id \in Ids |-> SampleItems(id)]
    /\ nextId = 3
    /\ nreq = 0
    /\ req = [s \in Slots |-> IdleReq]
    /\ \E variant \in {"manual", "finally"}, exists \in BOOLEAN, hasFile \in BOOLEAN,
          llmOk \in BOOLEAN, nItems \in 0..MaxItems :
          probe = Handler(variant, exists, hasFile, llmOk, nItems)

\* await client.query(...) resolves; before a return the manual variant releases
HandlerQuery ==
    LET h == ClientQuery(probe)
        next == AfterStatement(probe)
        moved == [h EXCEPT !.pc = next, !.i = IF probe.pc = "insert" THEN @ + 1 ELSE @]
    IN  /\ probe.pc \in HandlerStatements
        /\ probe' = IF next = "respond" THEN ReleaseBeforeReturn(moved) ELSE moved
        /\ UNCHANGED <<env, invoices, line_items, nextId, nreq, req>>

\* await client.query(...) rejects
HandlerQueryThrows ==
    /\ probe.pc \in HandlerStatements
    /\ probe' = [ClientQuery(probe) EXCEPT !.pc = "catch", !.failedAt = probe.pc]
    /\ UNCHANGED <<env, invoices, line_items, nextId, nreq, req>>

\* await extractInvoiceFromFile(absolutePath): it returns ok or not, it does not throw
HandlerLlm ==
    /\ probe.pc = "llm"
    /\ probe' = [probe EXCEPT !.pc = IF probe.llmOk THEN "begin" ELSE "failUpdate"]
    /\ UNCHANGED <<env, invoices, line_items, nextId, nreq, req>>

\* return res.status(...).json(...): the response is sent, the handler returns
HandlerRespond ==
    /\ probe.pc = "respond"
    /\ probe' = Finally([probe EXCEPT !.pc = "done"])
    /\ UNCHANGED <<env, invoices, line_items, nextId, nreq, req>>

\* res.status(...).json(...) throws inside the try block
HandlerRespondThrows ==
    /\ probe.pc = "respond"
    /\ probe' = [probe EXCEPT !.pc = "catch", !.failedAt = "respond"]
    /\ UNCHANGED <<env, invoices, line_items, nextId, nreq, req>>

\* catch: client.query("ROLLBACK"), then the manual variant's client.release(), the
\* 500, and the other variant's finally
HandlerCatch ==
    LET rolled == ClientQuery(probe)
        released == IF probe.variant = "manual" THEN ClientRelease(rolled) ELSE rolled
    IN  /\ probe.pc = "catch"
        /\ probe' = Finally([released EXCEPT !.pc = "done"])
        /\ UNCHANGED <<env, invoices, line_items, nextId, nreq, req>>

NextRelease ==
    \/ HandlerQuery
    \/ HandlerQueryThrows
    \/ HandlerLlm
    \/ HandlerRespond
    \/ HandlerRespondThrows
    \/ HandlerCatch

SpecRelease == InitRelease /\ [][NextRelease]_vars

(***************************************************************************)
(* Properties.  A step of request s is a step that changes req[s].          *)
(***************************************************************************)
\* request s is an extraction that has ended
ExtractDone(s) == req[s].kind = "extract" /\ req[s].pc = "done"

\* the step is the failure path's UPDATE of extraction s, answered 200
FailureWriteStep(s) ==
    /\ req[s].kind = "extract" /\ req[s].pc = "failUpdate"
    /\ req'[s].pc = "done"

\* the step is the COMMIT of extraction s, its UPDATE having found the row
CommitStep(s) ==
    /\ req[s].kind = "extract" /\ req[s].pc = "commit"
    /\ req'[s].pc = "refetch"
    /\ req[s].matched

\* the statements of an extraction that run inside its transaction
TxStatements == {"update", "delete", "insert", "commit"}

\* C1 (as amended): an extraction that answers with a result has written a status
\* other than UPLOADED: its failure path leaves the row, if it still exists, at
\* NEEDS_REVIEW and answers ok:false, its COMMIT leaves the row at EXTRACTED; an
\* extraction that a failing statement ends before its write is committed answers 500
\* and has written nothing, so an UPLOADED invoice stays UPLOADED.
C1_AnsweredExtractionLeavesUploaded ==
    [][\A s \in Slots :
          /\ (FailureWriteStep(s) /\ Exists(req[s].id)) =>
                /\ req[s].id \in DOMAIN invoices'
                /\ invoices'[req[s].id].status = NEEDS_REVIEW
                /\ req'[s].code = 200 /\ req'[s].ok = "false"
          /\ CommitStep(s) =>
                /\ req[s].id \in DOMAIN invoices'
                /\ invoices'[req[s].id].status = EXTRACTED
          /\ (req'[s].kind = "extract" /\ req'[s].pc = "done" /\ req'[s].ok = "true") =>
                req'[s].wrote \/ ~req'[s].matched
          /\ (req'[s].kind = "extract" /\ req'[s].pc = "done"
              /\ req'[s].failedAt \in {"connect", "select", "failUpdate", "begin"} \cup TxStatements) =>
                (req'[s].code = 500 /\ ~req'[s].wrote)]_vars

\* C1 as stated: once an extraction of an UPLOADED invoice has ended, with no manual
\* update beside it, the invoice is not UPLOADED
C1_ExtractionAlwaysLeavesUploaded ==
    \A s \in Slots :
        (/\ ExtractDone(s)
         /\ req[s].status0 = UPLOADED
         /\ Exists(req[s].id)
         /\ \A t \in Slots \ {s} : req[t].kind # "put")
        => invoices[req[s].id].status # UPLOADED

\* an extraction of an UPLOADED invoice took the failure path and the invoice is at NEEDS_REVIEW
C1_Witness ==
    \E s \in Slots :
        /\ ExtractDone(s)
        /\ req[s].status0 = UPLOADED
        /\ req[s].code = 200 /\ req[s].ok = "false" /\ req[s].wrote
        /\ Exists(req[s].id)
        /\ invoices[req[s].id].status = NEEDS_REVIEW

\* C2: a statement of the success path's transaction that fails after BEGIN leaves
\* nothing behind: no step of an extraction between its BEGIN and its COMMIT, and no
\* step of its catch block, changes the committed invoice row or line items; the
\* COMMIT writes the row and the line items together; and the extraction whose
\* transaction failed answers 500, its transaction over and nothing written.
C2_FailedTransactionLeavesNoTrace ==
    [][\A s \in Slots :
          /\ (/\ req[s].kind = "extract"
              /\ req[s].pc \in {"begin", "update", "delete", "insert", "rollback"}
              /\ req'[s] # req[s]) =>
                (invoices' = invoices /\ line_items' = line_items)
          /\ (req[s].kind = "extract" /\ req[s].pc = "commit" /\ req'[s].pc = "rollback") =>
                (invoices' = invoices /\ line_items' = line_items)
          /\ CommitStep(s) =>
                /\ invoices' = [invoices EXCEPT ![req[s].id] = req[s].pendRow]
                /\ line_items' = [line_items EXCEPT ![req[s].id] = req[s].ins]
          /\ (req'[s].kind = "extract" /\ req'[s].pc = "done"
              /\ req'[s].failedAt \in {"begin"} \cup TxStatements) =>
                /\ req'[s].code = 500
                /\ ~req'[s].wrote /\ ~req'[s].tx /\ ~req'[s].lock]_vars

\* an INSERT of the loop failed after the UPDATE and the DELETE had run: the invoice is
\* still UPLOADED and without line items
C2_Witness ==
    \E s \in Slots :
        /\ ExtractDone(s)
        /\ req[s].failedAt = "insert" /\ req[s].matched
        /\ req[s].code = 500 /\ ~req[s].wrote
        /\ Exists(req[s].id)
        /\ invoices[req[s].id].status = UPLOADED
        /\ line_items[req[s].id] = <<>>

\* the columns the failure path does not name
FrameColumns ==
    {"file_path", "supplier_name", "invoice_number", "invoice_date", "currency",
     "subtotal", "total", "created_at", "confidence"}

\* C3: the failure path (extractInvoiceFromFile returned ok:false) writes the audit
\* payload, the model identifier, the extraction and update timestamps and the status
\* NEEDS_REVIEW of the one invoice and nothing else: every other column of the row,
\* every other row and every line item is as before, and the answer is 200 ok:false.
C3_FailurePathFrame ==
    [][\A s \in Slots :
          FailureWriteStep(s) =>
            /\ req'[s].code = 200 /\ req'[s].ok = "false"
            /\ line_items' = line_items
            /\ DOMAIN invoices' = DOMAIN invoices
            /\ \A id \in DOMAIN invoices :
                  IF id # req[s].id THEN invoices'[id] = invoices[id]
                  ELSE /\ \A c \in FrameColumns : invoices'[id][c] = invoices[id][c]
                       /\ invoices'[id].status = NEEDS_REVIEW
                       /\ invoices'[id].raw_llm_json.t \in {"raw", "error"}
                       /\ invoices'[id].llm_model = Or(env.OPENAI_MODEL, Null)
                       /\ invoices'[id].extraction_at = req[s].now
                       /\ invoices'[id].updated_at = req[s].now]_vars

\* the model's output held no JSON for an invoice that had extracted fields and line
\* items: it is at NEEDS_REVIEW, the output is stored, the fields and items are there
C3_Witness ==
    \E s \in Slots :
        /\ ExtractDone(s)
        /\ req[s].code = 200 /\ req[s].ok = "false"
        /\ req[s].err = "No JSON found in model output"
        /\ Exists(req[s].id)
        /\ invoices[req[s].id].status = NEEDS_REVIEW
        /\ invoices[req[s].id].raw_llm_json.t = "raw"
        /\ invoices[req[s].id].updated_at = req[s].now
        /\ invoices[req[s].id].supplier_name # Null
        /\ line_items[req[s].id] # <<>>

\* C4: when a successful extraction commits, the invoice is EXTRACTED and its line
\* items are exactly one row per coerced line item, in order, each inserted by this
\* extraction; no line item from before remains.
C4_CommitReplacesLineItems ==
    [][\A s \in Slots :
          CommitStep(s) =>
            LET id == req[s].id
                coerced == req[s].llm.parsed.line_items.arr
            IN  /\ invoices'[id].status = EXTRACTED
                /\ Len(line_items'[id]) = Len(coerced)
                /\ \A k \in 1..Len(coerced) :
                      /\ line_items'[id][k].id = <<req[s].now, k>>
                      /\ line_items'[id][k].description = Coalesce(coerced[k].description, Str(<<>>))
                      /\ line_items'[id][k].quantity = coerced[k].quantity
                      /\ line_items'[id][k].unit_price = coerced[k].unit_price]_vars

\* an extraction has just committed over an invoice that had line items: the invoice is
\* EXTRACTED and every line item it has is one this extraction inserted
C4_Witness ==
    \E s \in Slots :
        /\ req[s].kind = "extract" /\ req[s].pc = "refetch"
        /\ req[s].matched /\ req[s].wrote /\ req[s].had > 0
        /\ invoices[req[s].id].status = EXTRACTED
        /\ Len(line_items[req[s].id]) = 2
        /\ \A k \in 1..Len(line_items[req[s].id]) :
              line_items[req[s].id][k].id[1] = req[s].now

\* C5 as stated, for the missing credential: an extraction that found
\* OPENAI_API_KEY unset ends as a hard error and has written nothing
C5_MissingCredentialIsHardError ==
    \A s \in Slots :
        (ExtractDone(s) /\ req[s].err = "OPENAI_API_KEY environment variable not set")
        => (req[s].code = 500 /\ ~req[s].wrote)

\* C6 (as amended): an extraction that has ended has sent exactly one response, and
\* one still running has sent none; the response is the success payload (200 ok:true,
\* after its COMMIT), the needs-review payload (200 ok:false), or an error response:
\* 404 or 400 with nothing written, 500 when a statement or the connection failed.
C6_ExactlyOneResponse ==
    \A s \in Slots :
        req[s].kind = "extract" =>
            IF req[s].pc # "done" THEN req[s].nresp = 0
            ELSE /\ req[s].nresp = 1
                 /\ \/ req[s].code = 200 /\ req[s].ok = "true" /\ req[s].failedAt = ""
                    \/ req[s].code = 200 /\ req[s].ok = "false" /\ req[s].failedAt = ""
                    \/ /\ req[s].code \in {400, 404}
                       /\ req[s].ok = "none" /\ req[s].failedAt = "" /\ ~req[s].wrote
                    \/ req[s].code = 500 /\ req[s].ok = "none" /\ req[s].failedAt # ""

\* C6 as stated: an extraction of an invoice it found ends with the success payload or
\* the needs-review payload
C6_OnlyResultPayloads ==
    \A s \in Slots :
        (ExtractDone(s) /\ req[s].status0 # Null)
        => (req[s].code = 200 /\ req[s].ok \in {"true", "false"})

\* an extraction found its invoice, a statement of its transaction failed, and it
\* answered once, with 500
C6_Witness ==
    \E s \in Slots :
        /\ ExtractDone(s)
        /\ req[s].status0 = UPLOADED
        /\ req[s].failedAt = "update"
        /\ req[s].nresp = 1 /\ req[s].code = 500

\* C7: an extraction or a manual update that has ended holds no connection: the
\* connection it acquired has been released, once, whatever path it ended on (404, 400,
\* failure path, COMMIT, a rejected statement, a ROLLBACK that failed too); only a
\* request whose db.connect() was rejected has released nothing.
C7_ClientReleased ==
    \A s \in Slots :
        (req[s].kind \in {"extract", "put"} /\ req[s].pc = "done") =>
            /\ req[s].client # "held"
            /\ req[s].client = "released" <=> req[s].failedAt # "connect"
            /\ req[s].nrel = IF req[s].client = "released" THEN 1 ELSE 0

\* an extraction's statement was rejected inside the transaction, then its ROLLBACK
\* failed: the connection is released
C7_Witness ==
    \E s \in Slots :
        /\ ExtractDone(s)
        /\ req[s].failedAt \in TxStatements
        /\ req[s].rb = "failed"
        /\ req[s].client = "released" /\ req[s].nrel = 1

\* both slots hold successful extractions of the invoice of s, t having committed after s
BothExtracted(s, t) ==
    /\ s # t
    /\ ExtractDone(s) /\ ExtractDone(t)
    /\ req[s].id = req[t].id
    /\ req[s].ok = "true" /\ req[t].ok = "true"
    /\ req[s].matched /\ req[t].matched
    /\ req[t].after = req[s].now
    /\ Exists(req[s].id)

\* C8: once two successful extractions of one invoice have both ended, the row and the
\* line items are those of the extraction that committed last: the row carries its
\* stamps, and every line item is one it inserted; there is no line item of the other.
\* While they run, each COMMIT makes the row and the line items this extraction's.
C8_LastCommitterWins ==
    /\ [](\A s, t \in Slots :
            BothExtracted(s, t) =>
                /\ invoices[req[t].id].status = EXTRACTED
                /\ invoices[req[t].id].updated_at = req[t].now
                /\ invoices[req[t].id].extraction_at = req[t].now
                /\ \A k \in 1..Len(line_items[req[t].id]) :
                      line_items[req[t].id][k].id[1] = req[t].now)
    /\ [][\A s \in Slots :
            CommitStep(s) =>
                /\ invoices'[req[s].id] = req[s].pendRow
                /\ line_items'[req[s].id] = req[s].ins
                /\ req[s].pendRow.updated_at = req[s].now
                /\ \A k \in 1..Len(req[s].ins) : req[s].ins[k].id[1] = req[s].now]_vars

\* two successful extractions of one invoice overlapped (s took the row lock while t was
\* already in its success path), t committed last, and the line items are those of t
C8_Witness ==
    \E s, t \in Slots :
        /\ BothExtracted(s, t)
        /\ req[s].raced
        /\ line_items[req[t].id] # <<>>
        /\ invoices[req[t].id].updated_at = req[t].now
        /\ \A k \in 1..Len(line_items[req[t].id]) :
              line_items[req[t].id][k].id[1] = req[t].now

\* the line total of the item the model gave is absent, null or no number
NoLineTotal(li) == ToNumber(li.line_total).t # "number" \/ IsNullish(li.line_total)

\* C9 as stated: a line item without a numeric line_total is coerced to the product of
\* its coerced quantity and its coerced unit price, and the line total stored for it
\* is a number
C9_LineTotalIsProduct ==
    /\ (probe.stage = "coerced" /\ NoLineTotal(probe.li)) =>
          probe.out.line_total = Times(probe.out.quantity, probe.out.unit_price)
    /\ (probe.stage = "stored" /\ NoLineTotal(probe.li)) =>
          probe.row.line_total.t = "number"

\* C10 as stated: in every persisted state the subtotal and the total of every
\* invoice are non-negative numbers, never NaN, NULL or text
C10_AmountsNonNegative ==
    \A id \in DOMAIN invoices :
        /\ invoices[id].subtotal.t = "number" /\ invoices[id].subtotal.n >= 0
        /\ invoices[id].total.t = "number" /\ invoices[id].total.n >= 0


\* C11 as stated: the coercion block applied to an object it has already coerced
\* gives the same subtotal and total and, for every line item, the same
\* description, quantity, unit_price, line_total and confidence
C11_CoercionIdempotent ==
    probe.stage = "recoerced" =>
        /\ probe.out.subtotal = probe.li.subtotal
        /\ probe.out.total = probe.li.total
        /\ Len(probe.out.line_items.arr) = Len(probe.li.line_items.arr)
        /\ \A i \in 1..Len(probe.li.line_items.arr) :
              probe.out.line_items.arr[i] = probe.li.line_items.arr[i]


\* the text the probe's extraction worked on, as the resolver returned it and
\* after he.decode
Resolved == probe.li
Decoded == HeDecode(probe.li)
Persisted == probe.stage = "persisted"

\* C12 as stated: on the success path, when the resolved text is itself a valid JSON
\* object, the stored raw_llm_json is the object parsed from that text
C12_StoredPayloadIsParsedResolvedText ==
    (Persisted /\ probe.out.ok /\ JsonParse(Resolved).ok) =>
        probe.row.raw_llm_json = Payload("object", JsonParse(Resolved).obj, <<>>, "")

\* C12 amended: on the success path, when the entity-decoded resolved text is itself
\* a valid JSON object, the stored raw_llm_json is the object parsed from the decoded
\* text: neither the coerced copy nor a { parsed, raw } wrapper
C12_StoredPayloadIsParsedDecodedText ==
    (Persisted /\ probe.out.ok /\ JsonParse(Decoded).ok) =>
        probe.row.raw_llm_json = Payload("object", JsonParse(Decoded).obj, <<>>, "")

\* a success whose text is one JSON object that coercion changes (total "12.5")
C12_Witness ==
    /\ Persisted /\ probe.out.ok /\ JsonParse(Decoded).ok
    /\ probe.out.parsed # JsonParse(Decoded).obj
    /\ probe.row.raw_llm_json.obj.total = S_12_5
    /\ probe.row.status = EXTRACTED

\* the text has a "{" with a "}" somewhere after it
HasObjectSpan(text) ==
    \E i \in 1..Len(text), j \in 1..Len(text) :
        i < j /\ text[i].k = "lbrace" /\ text[j].k = "rbrace"

\* from the first "{" to the last "}"
ObjectSpan(text) ==
    LET i == CHOOSE a \in 1..Len(text) :
                 text[a].k = "lbrace" /\ \A b \in 1..(a - 1) : text[b].k # "lbrace"
        j == CHOOSE a \in 1..Len(text) :
                 text[a].k = "rbrace" /\ \A b \in (a + 1)..Len(text) : text[b].k # "rbrace"
    IN  SubSeq(text, i, j)

\* the failure the text must end in: none when its span parses
ExpectedFailure(text) ==
    IF ~HasObjectSpan(text) THEN "No JSON found in model output"
    ELSE IF ~JsonParse(ObjectSpan(text)).ok THEN "Model returned malformed JSON"
    ELSE ""

\* C13 as stated: a resolved text without a "{"..."}" substring ends in the
\* NoJsonFound failure, one whose substring does not parse in the MalformedJson
\* failure; the result carries the resolved text verbatim, that text is persisted
\* in the audit field and the status becomes NEEDS_REVIEW
C13_FailuresCarryResolvedText ==
    (Persisted /\ ExpectedFailure(Resolved) # "") =>
        /\ ~probe.out.ok
        /\ probe.out.error = ExpectedFailure(Resolved)
        /\ probe.out.raw = Resolved
        /\ probe.row.raw_llm_json = Payload("raw", EmptyObject, Resolved, "")
        /\ probe.row.status = NEEDS_REVIEW

\* C13 amended: the same of the entity-decoded resolved text; the audit field holds
\* the decoded text when it is not empty and the failure's message when it is
C13_FailuresCarryDecodedText ==
    (Persisted /\ ExpectedFailure(Decoded) # "") =>
        /\ ~probe.out.ok
        /\ probe.out.error = ExpectedFailure(Decoded)
        /\ probe.out.raw = Decoded
        /\ probe.row.raw_llm_json =
              IF Decoded # <<>> THEN Payload("raw", EmptyObject, Decoded, "")
              ELSE Payload("error", EmptyObject, <<>>, ExpectedFailure(Decoded))
        /\ probe.row.status = NEEDS_REVIEW

\* a text whose span from the first "{" to the last "}" does not parse although a
\* shorter one would, persisted as { raw } with status NEEDS_REVIEW
C13_Witness ==
    /\ Persisted
    /\ ExpectedFailure(Decoded) = "Model returned malformed JSON"
    /\ JsonMatchLazy(Decoded).found /\ JsonParse(JsonMatchLazy(Decoded).text).ok
    /\ probe.row.raw_llm_json.t = "raw"
    /\ probe.row.status = NEEDS_REVIEW


\* C14 as stated: an extraction attempt whose credential is absent, whose invoice
\* has no stored file path or whose file is unreadable issues no call to the backend
C14_NoCallWithoutCredentialOrFile ==
    (/\ probe.stage \in {"rejected", "invoked"}
     /\ \/ ~probe.li.hasKey
        \/ ~Truthy(probe.li.file_path)
        \/ ~probe.li.fileOk) => ~probe.out.called


\* C15: in every persisted state every line item belongs to an invoice that
\* exists: the line items of an invoice id that is not in the table are none,
\* whatever requests ran or are running, and the step that deletes an invoice
\* leaves none of its line items
C15_LineItemsHaveInvoice ==
    /\ [](\A id \in Ids : id \notin DOMAIN invoices => line_items[id] = <<>>)
    /\ [][\A id \in DOMAIN invoices :
             id \notin DOMAIN invoices' => line_items'[id] = <<>>]_vars

\* an invoice was deleted while an extraction of it was between its SELECT and its
\* inserts: the deletion answered 200, the extraction failed at an INSERT and
\* answered 500, and no line item of the invoice is left
C15_Witness ==
    \E s \in Slots, t \in Slots :
        /\ req[s].kind = "delete" /\ req[s].code = 200
        /\ req[t].kind = "extract" /\ req[t].id = req[s].id
        /\ req[t].pc = "done" /\ req[t].failedAt = "insert" /\ req[t].code = 500
        /\ req[s].id \notin DOMAIN invoices
        /\ line_items[req[s].id] = <<>>


\* the step is the COMMIT of manual update s, answered 200
PutCommitStep(s) ==
    /\ req[s].kind = "put" /\ req[s].pc = "commit"
    /\ req'[s].pc = "done" /\ req'[s].code = 200

\* C16: when a PUT /:id commits, the invoice's line items are exactly the rows
\* built from the elements of the body's line_items array, in order, each inserted
\* by this request (none when line_items is omitted or empty); no line item stored
\* before is left, and none is patched in place
C16_PutReplacesLineItems ==
    [][\A s \in Slots :
          PutCommitStep(s) =>
            LET id == req[s].id
                items == BodyItems(req[s])
            IN  /\ id \in DOMAIN invoices'
                /\ line_items'[id] =
                      [k \in 1..Len(items) |-> UpdatedItem(items[k], <<req[s].now, k>>)]
                /\ \A k \in 1..Len(line_items[id]) :
                      \A j \in 1..Len(line_items'[id]) :
                          line_items'[id][j].id # line_items[id][k].id]_vars

\* a PUT with one line item has committed over an invoice that had line items: the
\* invoice has that one item, inserted by this request
C16_Witness ==
    \E s \in Slots :
        /\ req[s].kind = "put" /\ req[s].pc = "done" /\ req[s].code = 200
        /\ req[s].had > 0
        /\ req[s].id \in DOMAIN invoices
        /\ Len(line_items[req[s].id]) = 1
        /\ line_items[req[s].id][1].id = <<req[s].now, 1>>
        /\ line_items[req[s].id][1].description = Str(<<"Gadget">>)


\* C17: when a PUT /:id commits, the invoice's status is the body's status if the
\* body carries one, whatever the status was, and the status it had if the body
\* carries none
C17_PutSetsStatus ==
    [][\A s \in Slots :
          PutCommitStep(s) =>
            LET id == req[s].id
                status == req[s].body.status
            IN  /\ Truthy(status) => invoices'[id].status = status
                /\ ~Truthy(status) => invoices'[id].status = invoices[id].status]_vars

\* a PUT carrying status UPLOADED has committed on an invoice that an extraction had
\* moved out of UPLOADED: the invoice is UPLOADED again
C17_Witness ==
    \E s \in Slots :
        /\ req[s].kind = "put" /\ req[s].pc = "done" /\ req[s].code = 200
        /\ req[s].id \in DOMAIN invoices
        /\ invoices[req[s].id].status = UPLOADED
        /\ invoices[req[s].id].updated_at = req[s].now
        /\ invoices[req[s].id].raw_llm_json.t # "null"


\* the step is the success path's UPDATE of the probe's extraction
PersistSuccessStep ==
    probe.stage = "extracted" /\ probe'.stage = "persisted" /\ probe.out.ok

\* the object the model's text parses to, before coercion
ModelObject == JsonParse(JsonMatch(HeDecode(probe.li)).text).obj

ResolvedStage == probe.stage = "resolved"

\* (a) output_text is a non-blank string
HasOutputText(resp) == resp.output_text.t = "string" /\ NonBlank(resp.output_text.text)

\* the texts of the content parts that have one
TextsOfParts(parts) ==
    LET textual == SelectSeq(parts, LAMBDA c : c.t # "null" /\ c.text.t = "string")
    IN  [i \in 1..Len(textual) |-> textual[i].text.text]

\* the textual parts of the output list, concatenated
TextualOutput(resp) ==
    LET textual == SelectSeq(resp.output.arr, LAMBDA o : o.t \in {"string", "message"})
    IN  JoinLines([i \in 1..Len(textual) |->
                      IF textual[i].t = "string" THEN textual[i].text
                      ELSE JoinLines(TextsOfParts(textual[i].content))])

\* C19 as stated: output_text when it is a non-blank string; else the concatenated
\* textual parts of the output list when that is present and yields text; else the
\* concatenated text parts of the first candidate's content; else the stringified
\* whole response
C19_ResolverPriority ==
    ResolvedStage =>
        probe.out =
            IF HasOutputText(probe.li) THEN probe.li.output_text.text
            ELSE IF probe.li.output.t = "array" /\ TextualOutput(probe.li) # <<>>
            THEN TextualOutput(probe.li)
            ELSE IF /\ probe.li.candidates.t = "array"
                    /\ Len(probe.li.candidates.arr) > 0
                    /\ probe.li.candidates.arr[1].hasParts
            THEN JoinLines(TextsOfParts(probe.li.candidates.arr[1].parts))
            ELSE StringifyResponse(probe.li)

\* every item of the output list as text: a string as it is, the parts of a content
\* array each by its text or else its JSON, any other item by its JSON
OutputJoin(resp) ==
    JoinLines([i \in 1..Len(resp.output.arr) |->
        LET o == resp.output.arr[i]
        IN  IF o.t = "string" THEN o.text
            ELSE IF o.t = "message"
            THEN JoinLines([k \in 1..Len(o.content) |->
                    IF o.content[k].t = "null" THEN <<Prose>>
                    ELSE IF o.content[k].text.t = "string" THEN o.content[k].text.text
                    ELSE JsonOf("type")])
            ELSE JsonOf("type")])

\* (b) the output list is present and its items give a non-empty text
HasOutputJoin(resp) == resp.output.t = "array" /\ OutputJoin(resp) # <<>>

\* (c) there is a first candidate
HasCandidate(resp) == resp.candidates.t = "array" /\ Len(resp.candidates.arr) > 0

\* C19 amended: (a) output_text when it is a non-blank string; else (b) the items of
\* the output list joined by newlines when that text is not empty, an item or part
\* without text contributing its JSON; else (c) when there is a first candidate: its
\* content parts joined, a part without text contributing its JSON, the stringified
\* whole response when reading a part throws, and the stringified candidate when it
\* has no content.parts array; else (d) the stringified whole response.  It never
\* throws.
C19_ResolverCases ==
    ResolvedStage =>
        LET resp == probe.li
            cand == resp.candidates.arr[1]
        IN  /\ HasOutputText(resp) => probe.out = resp.output_text.text
            /\ (~HasOutputText(resp) /\ HasOutputJoin(resp)) => probe.out = OutputJoin(resp)
            /\ (~HasOutputText(resp) /\ ~HasOutputJoin(resp) /\ HasCandidate(resp)) =>
                  /\ ~cand.hasParts => probe.out = JsonOf("content")
                  /\ (cand.hasParts /\ \E k \in 1..Len(cand.parts) : cand.parts[k].t = "null") =>
                        probe.out = StringifyResponse(resp)
                  /\ (cand.hasParts /\ \A k \in 1..Len(cand.parts) : cand.parts[k].t # "null") =>
                        probe.out = JoinLines([k \in 1..Len(cand.parts) |->
                                        IF cand.parts[k].text.t = "string"
                                        THEN cand.parts[k].text.text ELSE JsonOf("type")])
            /\ (~HasOutputText(resp) /\ ~HasOutputJoin(resp) /\ ~HasCandidate(resp)) =>
                  probe.out = StringifyResponse(resp)

\* a blank output_text and an output list that gives no text: the text is that of
\* the first candidate's parts, the part without text as its JSON
C19_Witness ==
    /\ ResolvedStage
    /\ probe.li.output_text = TextVal(<<Space>>)
    /\ probe.li.output = List(<<OutString(<<>>)>>)
    /\ probe.out = JoinLines(<<OddText, JsonOf("type")>>)


\* C20 as stated: in every persisted state the confidence of every invoice is absent
\* or a number from 0 to 1 (0 to 100 hundredths)
C20_ConfidenceInUnitInterval ==
    \A id \in DOMAIN invoices :
        \/ invoices[id].confidence = Null
        \/ /\ invoices[id].confidence.t = "number"
           /\ invoices[id].confidence.n >= 0
           /\ invoices[id].confidence.n <= 100


\* the value is a string that spells a calendar date as YYYY-MM-DD
IsCalendarDate(v) == v.t = "string" /\ DateIn(v)

\* C21 as stated: when an extraction commits, the invoice_date it stores is absent or a
\* calendar date in YYYY-MM-DD form, and it is absent whenever the invoice_date the
\* model gave is not a calendar date
C21_InvalidDatesAreDropped ==
    [][\A s \in Slots :
          CommitStep(s) =>
            LET given == req[s].llm.parsed.invoice_date
                stored == invoices'[req[s].id].invoice_date
            IN  /\ stored = Null \/ IsCalendarDate(stored)
                /\ ~IsCalendarDate(given) => stored = Null]_vars

\* the first half of C21 alone: the stored invoice_date is absent or a calendar date
C21_StoredDateIsAbsentOrValid ==
    [][\A s \in Slots :
          CommitStep(s) =>
            LET stored == invoices'[req[s].id].invoice_date
            IN  stored = Null \/ IsCalendarDate(stored)]_vars


\* C22 as stated: the llm_model an extraction writes, on the failure path's UPDATE and
\* at the success path's COMMIT, is the model identifier its backend call named,
\* whether OPENAI_MODEL is configured or the invoker used its default
C22_StampedModelIsModelSent ==
    [][\A s \in Slots :
          ((FailureWriteStep(s) /\ Exists(req[s].id)) \/ CommitStep(s)) =>
              (req[s].llm.called => invoices'[req[s].id].llm_model = OPENAI_MODEL(env))]_vars


\* C23 as stated: an extraction that has answered 200 with ok:true, or with ok:false
\* (the invoice reported as marked NEEDS_REVIEW), found the invoice row with its UPDATE
\* and wrote it; it does not report a result for an invoice that a DELETE /:id removed
\* between its initial read and its writes
C23_ResultMeansRowUpdated ==
    \A s \in Slots :
        (ExtractDone(s) /\ req[s].code = 200 /\ req[s].ok \in {"true", "false"})
        => (req[s].matched /\ req[s].wrote)


\* C24 as stated: when an extraction commits, each of currency, subtotal and total
\* that the model omitted has the value the invoice held up to that COMMIT; a value
\* that a PUT /:id committed after the extraction's initial read is not replaced by
\* the one read at the start
C24_OmittedFieldsKeepCommittedValue ==
    [][\A s \in Slots :
          CommitStep(s) =>
            LET parsed == req[s].llm.parsed
                before == invoices[req[s].id]
                after == invoices'[req[s].id]
            IN  /\ IsNullish(parsed.currency) => after.currency = before.currency
                /\ IsNullish(parsed.subtotal) => after.subtotal = before.subtotal
                /\ IsNullish(parsed.total) => after.total = before.total]_vars


\* request s has answered 200 with an invoice row and a list of line items: a GET /:id,
\* or an extraction's success response
AnsweredWithInvoice(s) ==
    /\ req[s].pc = "done" /\ req[s].code = 200 /\ req[s].outHas
    /\ \/ req[s].kind = "get"
       \/ req[s].kind = "extract" /\ req[s].ok = "true"

\* C25 as stated: the invoice row and the line items of such a response coexisted in
\* one committed state of the database.  Every write of an invoice stamps updated_at,
\* so the row names the committed state it was read in: the line items of the
\* response are those that were committed when its row was read.
C25_ResponseIsOneCommittedState ==
    \A s \in Slots : AnsweredWithInvoice(s) => req[s].outItems = req[s].seen


\* C26 as stated: in both variants of the extract handler client.release() is called
\* at most once per request and no statement, ROLLBACK included, is sent on the
\* connection after it was released, also when an error is thrown after the handler
\* has released the connection or committed
C26_ReleasedOnceNoLateStatement == probe.nrel <= 1 /\ probe.late = 0

\* the current handler alone (release in the finally block): once the request has
\* ended the connection was released exactly once and no statement followed
C26_FinallyVariantReleasesOnce ==
    probe.variant = "finally" =>
        /\ probe.late = 0
        /\ probe.nrel = IF probe.pc = "done" THEN 1 ELSE 0

====
